---- MODULE Spec2Model ----
(***************************************************************************)
(* Model of the in-memory task service (romaan/taskmanager):               *)
(*   api/apps/tasks/services/task_manager.py   TaskManager                 *)
(*   api/apps/tasks/jobs.py                    with_simulated_duration     *)
(*   api/apps/tasks/api.py                     the router's handlers       *)
(*   api/apps/tasks/services/rate_limiter.py   RateLimiter                 *)
(*   api/apps/tasks/depends/rate_limit.py      enforce_rate_limit          *)
(*                                                                         *)
(* The program runs on one asyncio event loop.  A coroutine runs without   *)
(* interruption from one suspension point to the next; the suspension      *)
(* points of the task manager are `await self.queue.get()` on an empty     *)
(* queue (task_manager.py:164), `await asyncio.sleep(tick)` (jobs.py:76)   *)
(* and `await asyncio.sleep(cleanup_sleep_seconds)` (task_manager.py:241). *)
(* `async with self._lock` never suspends: no holder of the lock awaits    *)
(* inside it, so the lock is always free when it is requested.             *)
(*                                                                         *)
(* A worker's run between two suspension points is split into several      *)
(* steps so that every assignment to a record's status is a step of its    *)
(* own; `active` names the worker that holds the event loop in between,    *)
(* and no other agent can act until it reaches its next suspension point.  *)
(*                                                                         *)
(* Time.  The program reads its clocks only to take differences, so the    *)
(* model keeps the differences: a record's `age` is now - updated_at (an   *)
(* assignment `updated_at = now` sets it to 0), its `elapsed` is           *)
(* int(time.monotonic() - started_monotonic), and a worker's `slept` is    *)
(* the time since its asyncio.sleep(tick) began.  AdvanceClock adds one    *)
(* second to all of them.  Each is counted up to the largest value the     *)
(* program compares it with (cleanup_after_seconds, the job's duration,    *)
(* tick): beyond it every comparison of the program has the same result.   *)
(* `age` advances only while the sweeper reads it (the status is terminal) *)
(* and `elapsed` only while the wrapper reads it (the status is           *)
(* processing).                                                            *)
(***************************************************************************)
EXTENDS Naturals, Integers, FiniteSets, Sequences, TLC

\* ----------------------------------------------------------------- bounds
\* Number of submit() calls of a run (each draws one fresh uuid4).
MaxTasks == 3

\* Number of submit() calls of a run of FairSpec.
MaxFairTasks == 2
\* Number of submit() calls of a run of PollSpec.
MaxPollTasks == 1
\* Long-poll timeouts requested are 1..MaxTimeout seconds (the API takes 1..60).
MaxTimeout == 2

\* TaskManager(max_queue_size=...)
max_queue_size == 2
\* TaskManager(concurrency=...)
concurrency == 2
\* TaskManager(cleanup_after_seconds=...)
cleanup_after_seconds == 1
\* Priorities submitted are 0..MaxPriority (lower runs earlier).
MaxPriority == 1
\* Nominal duration (seconds) of the registered job, with_simulated_duration(duration=...).
duration == 1

\* RateLimiter(max_requests=...)
max_requests == 2
\* RateLimiter(period_seconds=...)
period_seconds == 2
\* RateLimiter(cleanup_interval=...)
cleanup_interval == 1
\* The allow calls of a burst are counted up to MaxBurst.
MaxBurst == 4
\* Seconds that may pass between the clock reading of allow and its lock.
MaxDelay == 1
\* Number of submit() calls of a run of ListSpec, and the largest `limit` of
\* its list_tasks request.
MaxListTasks == 2
MaxLimit == 2
\* Number of submit() calls of a run of ApiSpec.
MaxApiTasks == 1

\* ------------------------------------------------------ program constants
\* with_simulated_duration(..., tick=1.0)
tick == 1

\* Python's None, for the string-valued and for the number-valued fields.
None == "None"
NoTime == 0 - 1

TaskIds == 1..MaxTasks
Workers_OneMore == 1..(concurrency + 1)
Workers == 1..concurrency
Priorities == 0..MaxPriority
\* The task types handed to submit(): two registered jobs, whose bodies between
\* them have every outcome a body can have.
TaskTypes == {"generate_report", "lucky_job"}
Registered == {"compute_sum", "generate_report", "lucky_job", "batch_email"}
Terminal == {"completed", "failed", "cancelled"}
\* The rate limiter's keys: the client addresses that make requests.
Keys == {"10.0.0.1", "10.0.0.2"}

VARIABLES
    tasks,        \* self.tasks: task id -> TaskRecordModel (a dict: its domain varies)
    queue,        \* self.queue: the PQItems <<priority, seq, task_id>> it holds
    unfinished,   \* self.queue._unfinished_tasks: put minus task_done
    seq,          \* self._seq
    nextId,       \* the uuid4 drawn by the next submit
    phase,        \* "new" | "running" | "stopping" | "stopped": start()/stop()
    pc,           \* worker -> its position in _worker
    cur,          \* worker -> its locals (_prio, _seq, task_id); NoItem: none
    slept,        \* worker -> seconds since its asyncio.sleep(tick) began (up to tick)
    must_cancel,  \* worker -> a Task.cancel() is pending on it
    sweeper,      \* the position of _cleanup_loop: "none" | "sleep" | "cancel" | "done"
    active,       \* the worker that holds the event loop (0: none)
    ret,          \* what the submit or cancel call made by this step returned (a status,
                  \* None) or raised ("QueueFull", "NotCancellable"); NoRet otherwise
    poll,         \* the API request in flight (api.py get_task / cancel_task), if any
    buckets,      \* RateLimiter._buckets: key -> the ages (now - timestamp) of its
                  \* deque, oldest first (a dict: its domain varies)
    cleanup_task, \* RateLimiter._cleanup_task: "none" | "sleep" | "cancel"
    cleanup_slept,\* seconds since the limiter's asyncio.sleep(cleanup_interval) began
    called,       \* the rate limiter call made by this step and what it returned
    admitted,     \* history: key -> the ages of the allow(key) calls that returned
                  \* true within the last period_seconds, since the last reset
    burst,        \* history: key -> the allow(key) calls made and granted since its
                  \* bucket was last found empty, and the age of the first of them
    http,         \* the response of the request handled by this step, if any
    stream        \* the generator _stream of the list_tasks request in flight, if any

\* The task manager's and the API handlers' state.
tmvars == <<tasks, queue, unfinished, seq, nextId, phase, pc, cur, slept,
            must_cancel, sweeper, active, ret, poll>>

\* The rate limiter's state.
limiter == <<buckets, cleanup_task, cleanup_slept, called>>

\* The histories of the rate limiter's calls that the properties read.
history == <<admitted, burst>>

vars == <<tmvars, limiter, history, http, stream>>

\* No call was made by this step.
NoRet == "none"

\* A worker that holds no dequeued item.
NoItem == <<0, 0, 0>>

\* No API request has been made.  `state` is "none" | "waiting" (suspended in
\* asyncio.wait_for(event.wait(), timeout)) | "returned"; `fut` is the future
\* of event.wait() ("pending" until event.set() resolves it); `left` the
\* seconds until the timeout; `held` the status of the record object the
\* handler holds once the sweeper has taken it out of the table; `code` and
\* `status` the response.
NoPoll ==
    [ state |-> "none", kind |-> "none", task |-> 0, left |-> 0,
      fut |-> "none", held |-> "none", code |-> 0, status |-> "none" ]

\* No rate limiter call was made by this step.
NoCall == [op |-> "none", key |-> "none", value |-> 0]

\* No allow call since the key's bucket was last found empty.
NoBurst == [n |-> 0, granted |-> 0, age |-> 0]

\* No request was handled by this step.
NoHttp == [key |-> "none", method |-> "none", code |-> 0]

\* No list_tasks request is in flight.
NoStream ==
    [state |-> "none", filter |-> None, limit |-> 0, snap |-> <<>>, pos |-> 0,
     gone |-> <<>>, out |-> <<>>]

\* TaskManager.__init__
Init ==
    /\ tasks = <<>>
    /\ queue = {}
    /\ unfinished = 0
    /\ seq = 0
    /\ nextId = 1
    /\ phase = "new"
    /\ pc = [w \in Workers |-> "none"]
    /\ cur = [w \in Workers |-> NoItem]
    /\ slept = [w \in Workers |-> 0]
    /\ must_cancel = [w \in Workers |-> FALSE]
    /\ sweeper = "none"
    /\ active = 0
    /\ ret = NoRet
    /\ poll = NoPoll
    /\ buckets = <<>>
    /\ cleanup_task = "none"
    /\ cleanup_slept = 0
    /\ called = NoCall
    /\ admitted = [k \in Keys |-> <<>>]
    /\ burst = [k \in Keys |-> NoBurst]
    /\ http = NoHttp
    /\ stream = NoStream

\* asyncio.Event.set() on the events of the records in `fired`: the future of
\* a waiter suspended in event.wait() is resolved (a later event.clear() does
\* not undo that).
Notify_FlagOnly(p, fired) == p

Notify(p, fired) ==
    IF p.state = "waiting" /\ p.task \in fired /\ p.fut = "pending"
    THEN [p EXCEPT !.fut = "done"]
    ELSE p

\* ------------------------------------------------------------ the records
\* The record submit() builds: TaskInfoModel + TaskRecordModel, status "queued".
NewRecord(task_type) ==
    [ status |-> "queued",
      task_type |-> task_type,
      result |-> None,
      error |-> None,
      progress |-> 0,
      message |-> "Queued",
      eta_seconds |-> NoTime,
      age |-> 0,
      cancel_requested |-> FALSE,
      elapsed |-> NoTime,
      event |-> FALSE ]

\* dict.pop(key, None) / del: the table without the keys in `gone`.
Without(tbl, gone) == [t \in (DOMAIN tbl) \ gone |-> tbl[t]]

\* dict[key] = value
With(tbl, t, rec) == [u \in (DOMAIN tbl) \cup {t} |-> IF u = t THEN rec ELSE tbl[u]]

\* ------------------------------------------------------ the priority queue
\* Mutant of Full: the capacity test is off by one.
Full_OffByOne(q) == Cardinality(q) > max_queue_size

\* asyncio.Queue.full(): maxsize <= 0 is unbounded.
Full(q) == IF max_queue_size <= 0 THEN FALSE ELSE Cardinality(q) >= max_queue_size

\* Mutant of ItemLess: the entry is built as (seq, priority, task_id).
ItemLess_SeqFirst(a, b) ==
    \/ a[2] < b[2]
    \/ a[2] = b[2] /\ a[1] < b[1]
    \/ a[2] = b[2] /\ a[1] = b[1] /\ a[3] < b[3]

\* Tuple order of PQItem = (priority, seq, task_id): heapq compares element-wise.
ItemLess(a, b) ==
    \/ a[1] < b[1]
    \/ a[1] = b[1] /\ a[2] < b[2]
    \/ a[1] = b[1] /\ a[2] = b[2] /\ a[3] < b[3]

\* Mutant of PQMin: within the least priority, the newest entry comes out.
PQMin_Lifo(q) ==
    CHOOSE a \in q : \A b \in q \ {a} : a[1] < b[1] \/ (a[1] = b[1] /\ a[2] > b[2])

\* asyncio.PriorityQueue._get: heappop, the least item.
PQMin(q) == CHOOSE a \in q : \A b \in q \ {a} : ItemLess(a, b)

\* ------------------------------------------------------------------ submit
\* Mutant of Rollback: the record of the failed submit is left in the table.
Rollback_Missing(tbl, task_id) == tbl

\* submit, lines 114-116: the rollback of the record just inserted.
Rollback(tbl, task_id) == Without(tbl, {task_id})

\* The manager is called while the application serves: main.py's app_lifespan
\* calls stop() once the server has stopped serving, and the tests call
\* stop() last.
Serving == phase \in {"new", "running"}

\* Mutant of Submit: self._seq is not incremented.
Submit_SameSeq(task_type, priority) ==
    /\ active = 0
    /\ Serving
    /\ nextId <= MaxTasks
    /\ LET task_id == nextId
           inserted == With(tasks, task_id, NewRecord(task_type))
       IN /\ nextId' = nextId + 1
          /\ seq' = seq
          /\ IF Full(queue)
             THEN /\ tasks' = Rollback(inserted, task_id)
                  /\ UNCHANGED <<queue, unfinished>>
                  /\ ret' = "QueueFull"
             ELSE /\ tasks' = inserted
                  /\ queue' = queue \cup {<<priority, seq, task_id>>}
                  /\ unfinished' = unfinished + 1
                  /\ ret' = "queued"
    /\ UNCHANGED <<phase, pc, cur, slept, must_cancel, sweeper, active>>
    /\ UNCHANGED poll

\* TaskManager.submit: insert the record and draw seq under the lock, then
\* put_nowait; on QueueFull take the record out again and raise.
Submit(task_type, priority) ==
    /\ active = 0
    /\ Serving
    /\ nextId <= MaxTasks
    /\ LET task_id == nextId
           inserted == With(tasks, task_id, NewRecord(task_type))
           s == seq + 1
       IN /\ nextId' = nextId + 1
          /\ seq' = s
          /\ IF Full(queue)
             THEN /\ tasks' = Rollback(inserted, task_id)
                  /\ UNCHANGED <<queue, unfinished>>
                  /\ ret' = "QueueFull"
             ELSE /\ tasks' = inserted
                  /\ queue' = queue \cup {<<priority, s, task_id>>}
                  /\ unfinished' = unfinished + 1
                  /\ ret' = "queued"
    /\ UNCHANGED <<phase, pc, cur, slept, must_cancel, sweeper, active>>
    /\ UNCHANGED poll

\* ----------------------------------------- submit, statement by statement
\* submit inserts the record under the lock (lines 104-107), puts the entry
\* (lines 109-111) and on QueueFull takes the lock again to roll back (lines
\* 112-119).  The lock is free whenever submit reaches it (no holder awaits
\* inside it), so submit never suspends: it holds the event loop from the
\* insertion to its return, as `active` records.
Submitter == 0 - 1

\* Mutant of SubmitInsert: taking the lock suspends submit, and it does not
\* get to run again.
SubmitInsert_Suspends(task_type) ==
    /\ active = 0
    /\ Serving
    /\ nextId <= MaxTasks
    /\ tasks' = With(tasks, nextId, NewRecord(task_type))
    /\ seq' = seq + 1
    /\ ret' = NoRet
    /\ UNCHANGED <<queue, unfinished, nextId, phase, pc, cur, slept,
                   must_cancel, sweeper, active>>
    /\ UNCHANGED poll

\* submit, lines 86-107: the record is in the table, with its seq drawn.
SubmitInsert(task_type) ==
    /\ active = 0
    /\ Serving
    /\ nextId <= MaxTasks
    /\ tasks' = With(tasks, nextId, NewRecord(task_type))
    /\ seq' = seq + 1
    /\ active' = Submitter
    /\ ret' = NoRet
    /\ UNCHANGED <<queue, unfinished, nextId, phase, pc, cur, slept,
                   must_cancel, sweeper>>
    /\ UNCHANGED poll

\* submit, lines 109-120: put_nowait, the rollback on QueueFull, the return.
SubmitPut(priority) ==
    /\ active = Submitter
    /\ IF Full(queue)
       THEN /\ tasks' = Rollback(tasks, nextId)
            /\ UNCHANGED <<queue, unfinished>>
            /\ ret' = "QueueFull"
       ELSE /\ queue' = queue \cup {<<priority, seq, nextId>>}
            /\ unfinished' = unfinished + 1
            /\ ret' = "queued"
            /\ UNCHANGED tasks
    /\ nextId' = nextId + 1
    /\ active' = 0
    /\ UNCHANGED <<seq, phase, pc, cur, slept, must_cancel, sweeper>>
    /\ UNCHANGED poll

\* TaskManager.get
Get(task_id) ==
    /\ active = 0
    /\ Serving
    /\ ret' = IF task_id \in DOMAIN tasks THEN tasks[task_id].status ELSE None
    /\ UNCHANGED <<tasks, queue, unfinished, seq, nextId, phase, pc, cur, slept,
                   must_cancel, sweeper, active>>
    /\ UNCHANGED poll

\* ------------------------------------------------------------------ cancel
\* Mutant of IsTerminal: a failed task is taken for a live one.
IsTerminal_FailedIsLive(status) == status \in {"completed", "cancelled"}

\* The terminal statuses cancel() refuses (task_manager.py:139).
IsTerminal(status) == status \in {"completed", "failed", "cancelled"}

\* Mutant of CancelRecord: a queued task is only flagged, and left for the
\* worker to cancel.
CancelRecord_FlagOnly(rec) ==
    [rec EXCEPT !.cancel_requested = TRUE, !.age = 0, !.event = TRUE]

\* Mutant of CancelRecord: a processing task is cancelled by cancel() itself.
CancelRecord_Eager(rec) ==
    [rec EXCEPT !.cancel_requested = TRUE,
                !.status = "cancelled",
                !.error = IF rec.status = "queued"
                          THEN "Cancelled before processing" ELSE rec.error,
                !.age = 0,
                !.event = TRUE]

\* cancel() on a record that is not terminal: the flag, the timestamp and the
\* notifier always; status and error only when the task is still queued.
CancelRecord(rec) ==
    IF rec.status = "queued"
    THEN [rec EXCEPT !.cancel_requested = TRUE,
                     !.status = "cancelled",
                     !.error = "Cancelled before processing",
                     !.age = 0,
                     !.event = TRUE]
    ELSE [rec EXCEPT !.cancel_requested = TRUE,
                     !.age = 0,
                     !.event = TRUE]

\* Mutant of Cancel: the entry of a cancelled queued task is taken out of the
\* queue.
Cancel_FreesSlot(task_id) ==
    /\ active = 0
    /\ Serving
    /\ IF task_id \notin DOMAIN tasks
       THEN /\ ret' = None
            /\ UNCHANGED <<tasks, poll, queue, unfinished>>
       ELSE IF IsTerminal(tasks[task_id].status)
       THEN /\ ret' = "NotCancellable"
            /\ UNCHANGED <<tasks, poll, queue, unfinished>>
       ELSE /\ tasks' = [tasks EXCEPT ![task_id] = CancelRecord(@)]
            /\ ret' = CancelRecord(tasks[task_id]).status
            /\ poll' = Notify(poll, {task_id})
            /\ queue' = {e \in queue : e[3] # task_id}
            /\ unfinished' = unfinished - Cardinality(queue \ queue')
    /\ UNCHANGED <<seq, nextId, phase, pc, cur, slept, must_cancel, sweeper,
                   active>>

\* TaskManager.cancel: None for an unknown id, TaskNotCancellableError for a
\* terminal record, else the record's info after CancelRecord.
Cancel(task_id) ==
    /\ active = 0
    /\ Serving
    /\ IF task_id \notin DOMAIN tasks
       THEN /\ ret' = None
            /\ UNCHANGED <<tasks, poll>>
       ELSE IF IsTerminal(tasks[task_id].status)
       THEN /\ ret' = "NotCancellable"
            /\ UNCHANGED <<tasks, poll>>
       ELSE /\ tasks' = [tasks EXCEPT ![task_id] = CancelRecord(@)]
            /\ ret' = CancelRecord(tasks[task_id]).status
            /\ poll' = Notify(poll, {task_id})
    /\ UNCHANGED <<queue, unfinished, seq, nextId, phase, pc, cur, slept,
                   must_cancel, sweeper, active>>

\* ------------------------------------------------------------- start, stop
\* TaskManager.start: one asyncio task per worker and one for _cleanup_loop.
\* The model starts the manager once, as main.py's app_lifespan does.
Start ==
    /\ active = 0
    /\ phase = "new"
    /\ phase' = "running"
    /\ pc' = [w \in Workers |-> "idle"]
    /\ sweeper' = "sleep"
    /\ ret' = NoRet
    /\ UNCHANGED <<tasks, queue, unfinished, seq, nextId, cur, slept,
                   must_cancel, active>>
    /\ UNCHANGED poll

\* TaskManager.stop, up to its first await: Task.cancel() on every worker and
\* on the sweeper.  cancel() on a finished task does nothing; on a suspended
\* one it makes its next step the delivery of CancelledError.
Stop ==
    /\ active = 0
    /\ phase = "running"
    /\ phase' = "stopping"
    /\ must_cancel' = [w \in Workers |-> pc[w] \in {"idle", "sleep"}]
    /\ sweeper' = IF sweeper = "sleep" THEN "cancel" ELSE sweeper
    /\ ret' = NoRet
    /\ UNCHANGED <<tasks, queue, unfinished, seq, nextId, pc, cur, slept,
                   active>>
    /\ UNCHANGED poll

\* TaskManager.stop, its awaits: gather(*workers) and the cleanup task return
\* once every one of them has finished.
StopReturn ==
    /\ active = 0
    /\ phase = "stopping"
    /\ \A w \in Workers : pc[w] = "done"
    /\ sweeper = "done"
    /\ phase' = "stopped"
    /\ ret' = NoRet
    /\ UNCHANGED <<tasks, queue, unfinished, seq, nextId, pc, cur, slept,
                   must_cancel, sweeper, active>>
    /\ UNCHANGED poll

\* ------------------------------------------------------------------ worker
\* Mutant of WorkerSkips: the worker does not look at the status.
WorkerSkips_OnlyMissing(task_id) == task_id \notin DOMAIN tasks

\* _worker, lines 166-171: the dequeued entry is acknowledged and dropped when
\* its record is gone or already cancelled.
WorkerSkips(task_id) ==
    \/ task_id \notin DOMAIN tasks
    \/ tasks[task_id].status = "cancelled"

\* _worker, lines 173-184: move to processing.
RecProcessing(rec) ==
    [rec EXCEPT !.status = "processing",
                !.elapsed = 0,
                !.age = 0,
                !.progress = 0,
                !.message = "Processing...",
                !.eta_seconds = NoTime,
                !.event = TRUE]

\* _worker, lines 188-198: the executor returned `value`.
RecCompleted(rec, value) ==
    [rec EXCEPT !.status = "completed",
                !.result = value,
                !.progress = 100,
                !.message = "Done",
                !.eta_seconds = 0]

\* _worker, lines 199-200: CancelledError or TaskCancellableError.
RecCancelled(rec) == [rec EXCEPT !.status = "cancelled"]

\* Mutant of RecFailed: the reason is not recorded.
RecFailed_NoError(rec, reason) == [rec EXCEPT !.status = "failed"]

\* _worker, lines 201-209: TaskFailedError(reason), or any other exception.
RecFailed(rec, reason) == [rec EXCEPT !.status = "failed", !.error = reason]

\* _worker, lines 210-212: the finally block's writes to the record.
RecFinally(rec) == [rec EXCEPT !.age = 0, !.event = FALSE]

\* _worker, line 164 onwards: take the least entry; skip it or move its task
\* to processing.  A worker blocked in queue.get() resumes once the queue has
\* an entry; a worker that just finished a task takes the next entry at once.
WorkerGet(w) ==
    /\ \/ pc[w] = "idle" /\ active = 0 /\ ~must_cancel[w]
       \/ pc[w] = "loop" /\ active = w
    /\ queue # {}
    /\ LET item == PQMin(queue)
           task_id == item[3]
       IN /\ queue' = queue \ {item}
          /\ active' = w
          /\ IF WorkerSkips(task_id)
             THEN /\ unfinished' = unfinished - 1
                  /\ pc' = [pc EXCEPT ![w] = "loop"]
                  /\ UNCHANGED <<tasks, cur, poll>>
             ELSE /\ tasks' = [tasks EXCEPT ![task_id] = RecProcessing(@)]
                  /\ pc' = [pc EXCEPT ![w] = "process"]
                  /\ cur' = [cur EXCEPT ![w] = item]
                  /\ poll' = Notify(poll, {task_id})
                  /\ UNCHANGED unfinished
    /\ ret' = NoRet
    /\ UNCHANGED <<seq, nextId, phase, slept, must_cancel, sweeper>>

\* _worker, line 164 on an empty queue: suspend in queue.get().
WorkerBlock(w) ==
    /\ pc[w] = "loop"
    /\ active = w
    /\ queue = {}
    /\ pc' = [pc EXCEPT ![w] = "idle"]
    /\ active' = 0
    /\ ret' = NoRet
    /\ UNCHANGED <<tasks, queue, unfinished, seq, nextId, phase, cur, slept,
                   must_cancel, sweeper>>
    /\ UNCHANGED poll

\* The outcomes of a registered job's body (jobs.py:85-112): a value, a
\* TaskFailedError, or (generate_report called with parameters that lack its
\* arguments or hold sections that cannot be iterated) a TypeError.
BodyOutcomes(task_type) ==
    CASE task_type = "compute_sum" -> {"value", "TaskFailed"}
      [] task_type = "generate_report" -> {"value", "Exception"}
      [] task_type = "lucky_job" -> {"value", "TaskFailed"}
      [] task_type = "batch_email" -> {"value", "TaskFailed"}
      [] OTHER -> {}

\* Mutant of RecOutcome: the worker has no handler for the cancellation
\* signals, which then fall to the handler of unexpected errors.
RecOutcome_CancelUnhandled(rec, outcome) ==
    RecFinally(
        CASE outcome = "value" -> RecCompleted(rec, "value")
          [] outcome = "None" -> RecCompleted(rec, None)
          [] outcome = "TaskFailed" -> RecFailed(rec, "TaskFailed reason")
          [] OTHER -> RecFailed(rec, "Unexpected error: detail"))

\* Mutant of RecOutcome: the worker's handler names TaskCancellableError only,
\* so the CancelledError of stop() passes it by and only the finally block runs.
RecOutcome_StopUnrecorded(rec, outcome) ==
    RecFinally(
        CASE outcome = "value" -> RecCompleted(rec, "value")
          [] outcome = "None" -> RecCompleted(rec, None)
          [] outcome = "TaskFailed" -> RecFailed(rec, "TaskFailed reason")
          [] outcome = "Exception" -> RecFailed(rec, "Unexpected error: detail")
          [] outcome = "CancelledError" -> rec
          [] OTHER -> RecCancelled(rec))

\* The record after the executor ended with `outcome` and the worker's
\* try/except/finally classified it.
RecOutcome(rec, outcome) ==
    RecFinally(
        CASE outcome = "value" -> RecCompleted(rec, "value")
          [] outcome = "None" -> RecCompleted(rec, None)
          [] outcome = "TaskFailed" -> RecFailed(rec, "TaskFailed reason")
          [] outcome = "Exception" -> RecFailed(rec, "Unexpected error: detail")
          [] OTHER -> RecCancelled(rec))

\* with_simulated_duration._wrapped, lines 27-42: on entry.
RecWrappedEntry(rec) ==
    [rec EXCEPT !.elapsed = IF @ = NoTime THEN 0 ELSE @,
                !.progress = 100,
                !.message = "100% remaining",
                !.eta_seconds = IF duration > 1 THEN duration ELSE 1,
                !.age = 0]

\* _worker, line 187, and _process: a task type _process does not know falls
\* through the match and returns None at once; a registered job enters the
\* simulated-duration wrapper.
WorkerProcess(w) ==
    /\ pc[w] = "process"
    /\ active = w
    /\ LET rec == tasks[cur[w][3]]
       IN IF rec.task_type \in Registered
          THEN /\ tasks' = [tasks EXCEPT ![cur[w][3]] = RecWrappedEntry(rec)]
               /\ pc' = [pc EXCEPT ![w] = "tick"]
               /\ UNCHANGED <<unfinished, cur>>
          ELSE /\ tasks' = [tasks EXCEPT ![cur[w][3]] = RecOutcome(rec, "None")]
               /\ unfinished' = unfinished - 1
               /\ pc' = [pc EXCEPT ![w] = "loop"]
               /\ cur' = [cur EXCEPT ![w] = NoItem]
    /\ ret' = NoRet
    /\ UNCHANGED <<queue, seq, nextId, phase, slept, must_cancel, sweeper,
                   active>>
    /\ UNCHANGED poll

\* with_simulated_duration._wrapped, lines 46-49.
Total == IF duration > 1 THEN duration ELSE 1
Elapsed(rec) == rec.elapsed
Remaining(rec) == IF Total - Elapsed(rec) > 0 THEN Total - Elapsed(rec) ELSE 0
PercentCompleted(rec) ==
    IF (Elapsed(rec) * 100) \div Total < 100
    THEN (Elapsed(rec) * 100) \div Total
    ELSE 100

\* Mutant of CancelObserved: the tick loop has no checkpoint.
CancelObserved_Never(rec) == FALSE

\* with_simulated_duration._wrapped, line 52: the checkpoint's test.
CancelObserved(rec) == rec.cancel_requested

\* Mutant of RecWrappedCancel: the change notifier is not fired.
RecWrappedCancel_NoNotify(rec) ==
    [rec EXCEPT !.status = "cancelled",
                !.error = "Cancelled during processing",
                !.progress = PercentCompleted(rec),
                !.message = "Cancelled on request",
                !.eta_seconds = NoTime,
                !.age = 0]

\* with_simulated_duration._wrapped, lines 52-63: the checkpoint saw cancel_requested.
RecWrappedCancel(rec) ==
    [rec EXCEPT !.status = "cancelled",
                !.error = "Cancelled during processing",
                !.progress = PercentCompleted(rec),
                !.message = "Cancelled on request",
                !.eta_seconds = NoTime,
                !.age = 0,
                !.event = TRUE]

\* with_simulated_duration._wrapped, lines 65-72: the progress update.
RecWrappedProgress(rec) ==
    [rec EXCEPT !.progress = PercentCompleted(rec),
                !.message = "remaining",
                !.eta_seconds = Remaining(rec),
                !.age = 0]

\* One pass of the wrapper's tick loop (jobs.py:45-79), first from its entry
\* and then each time asyncio.sleep(tick) has ended.  The checkpoint that sees
\* cancel_requested writes the record and raises TaskCancellableError.
\* Otherwise the progress update, and then either the next sleep or, when no
\* time remains, the job body and the worker's classification of its outcome.
WrappedTick(w) ==
    /\ \/ pc[w] = "tick" /\ active = w
       \/ pc[w] = "sleep" /\ active = 0 /\ ~must_cancel[w] /\ slept[w] >= tick
    /\ LET rec == tasks[cur[w][3]]
       IN IF CancelObserved(rec)
          THEN /\ tasks' = [tasks EXCEPT ![cur[w][3]] = RecWrappedCancel(rec)]
               /\ pc' = [pc EXCEPT ![w] = "raise"]
               /\ slept' = [slept EXCEPT ![w] = 0]
               /\ active' = w
               /\ poll' = Notify(poll, {cur[w][3]})
               /\ UNCHANGED <<unfinished, cur>>
          ELSE IF Remaining(rec) <= 0
          THEN /\ \E outcome \in BodyOutcomes(rec.task_type) :
                     tasks' = [tasks EXCEPT ![cur[w][3]] =
                                  RecOutcome(RecWrappedProgress(rec), outcome)]
               /\ unfinished' = unfinished - 1
               /\ pc' = [pc EXCEPT ![w] = "loop"]
               /\ cur' = [cur EXCEPT ![w] = NoItem]
               /\ slept' = [slept EXCEPT ![w] = 0]
               /\ active' = w
               /\ UNCHANGED poll
          ELSE /\ tasks' = [tasks EXCEPT ![cur[w][3]] = RecWrappedProgress(rec)]
               /\ pc' = [pc EXCEPT ![w] = "sleep"]
               /\ slept' = [slept EXCEPT ![w] = 0]
               /\ active' = 0
               /\ UNCHANGED <<unfinished, cur, poll>>
    /\ ret' = NoRet
    /\ UNCHANGED <<queue, seq, nextId, phase, must_cancel, sweeper>>

\* Mutant of WorkerExcept: the handler re-raises and the worker ends.
WorkerExcept_Dies(w) ==
    /\ pc[w] = "raise"
    /\ active = w
    /\ tasks' = [tasks EXCEPT ![cur[w][3]] = RecOutcome(@, "TaskCancellable")]
    /\ unfinished' = unfinished - 1
    /\ pc' = [pc EXCEPT ![w] = "done"]
    /\ cur' = [cur EXCEPT ![w] = NoItem]
    /\ active' = 0
    /\ ret' = NoRet
    /\ UNCHANGED <<queue, seq, nextId, phase, slept, must_cancel, sweeper, poll>>

WorkerExcept_NoAck(w) ==
    /\ pc[w] = "raise"
    /\ active = w
    /\ tasks' = [tasks EXCEPT ![cur[w][3]] = RecOutcome(@, "TaskCancellable")]
    /\ pc' = [pc EXCEPT ![w] = "loop"]
    /\ cur' = [cur EXCEPT ![w] = NoItem]
    /\ ret' = NoRet
    /\ UNCHANGED <<queue, unfinished, seq, nextId, phase, slept, must_cancel,
                   sweeper, active>>
    /\ UNCHANGED poll

\* _worker, lines 199-200 and 210-213: the TaskCancellableError raised by the
\* wrapper's checkpoint reaches the worker's handler.
WorkerExcept(w) ==
    /\ pc[w] = "raise"
    /\ active = w
    /\ tasks' = [tasks EXCEPT ![cur[w][3]] = RecOutcome(@, "TaskCancellable")]
    /\ unfinished' = unfinished - 1
    /\ pc' = [pc EXCEPT ![w] = "loop"]
    /\ cur' = [cur EXCEPT ![w] = NoItem]
    /\ ret' = NoRet
    /\ UNCHANGED <<queue, seq, nextId, phase, slept, must_cancel, sweeper,
                   active>>
    /\ UNCHANGED poll

\* The CancelledError of stop() reaches the worker at its suspension point.
\* In queue.get() it leaves the loop (lines 214-216) and the worker ends.  In
\* the executor's sleep it is caught by line 199: the record becomes
\* cancelled, the finally block runs, and the `while True` loop goes on.
WorkerCancelled(w) ==
    /\ active = 0
    /\ must_cancel[w]
    /\ must_cancel' = [must_cancel EXCEPT ![w] = FALSE]
    /\ IF pc[w] = "idle"
       THEN /\ pc' = [pc EXCEPT ![w] = "done"]
            /\ UNCHANGED <<tasks, unfinished, cur, slept, active>>
       ELSE /\ pc[w] = "sleep"
            /\ tasks' = [tasks EXCEPT ![cur[w][3]] = RecOutcome(@, "CancelledError")]
            /\ unfinished' = unfinished - 1
            /\ pc' = [pc EXCEPT ![w] = "loop"]
            /\ cur' = [cur EXCEPT ![w] = NoItem]
            /\ slept' = [slept EXCEPT ![w] = 0]
            /\ active' = w
    /\ ret' = NoRet
    /\ UNCHANGED <<queue, seq, nextId, phase, sweeper>>
    /\ UNCHANGED poll

\* ----------------------------------------------------------------- sweeper
\* Mutant of Expired: the sweeper collects completed records only.
Expired_OnlyCompleted ==
    {t \in DOMAIN tasks :
        tasks[t].status = "completed" /\ tasks[t].age >= cleanup_after_seconds}

\* Mutant of Expired: the sweeper does not look at the age.
Expired_AnyAge == {t \in DOMAIN tasks : tasks[t].status \in {"completed", "failed", "cancelled"}}

\* _cleanup_loop, lines 245-249: the ids one pass collects.
Expired ==
    {t \in DOMAIN tasks :
        /\ tasks[t].status \in {"completed", "failed", "cancelled"}
        /\ tasks[t].age >= cleanup_after_seconds}

\* _cleanup_loop: one pass after its sleep.
CleanupLoop ==
    /\ active = 0
    /\ sweeper = "sleep"
    /\ tasks' = Without(tasks, Expired)
    /\ poll' = IF poll.state = "waiting" /\ poll.task \in Expired
               THEN [poll EXCEPT !.held = tasks[poll.task].status]
               ELSE poll
    /\ ret' = NoRet
    /\ UNCHANGED <<queue, unfinished, seq, nextId, phase, pc, cur, slept,
                   must_cancel, sweeper, active>>

\* _cleanup_loop, lines 254-255: CancelledError in its sleep ends it.
CleanupCancelled ==
    /\ active = 0
    /\ sweeper = "cancel"
    /\ sweeper' = "done"
    /\ ret' = NoRet
    /\ UNCHANGED <<tasks, queue, unfinished, seq, nextId, phase, pc, cur, slept,
                   must_cancel, active>>
    /\ UNCHANGED poll

\* ------------------------------------------------------------------- clock
UpTo(n, cap) == IF n < cap THEN n + 1 ELSE n

\* One second passes (time.monotonic and datetime.now advance together).
AdvanceClock ==
    /\ active = 0
    /\ tasks' = [t \in DOMAIN tasks |->
                    [tasks[t] EXCEPT
                        !.age = IF tasks[t].status \in Terminal
                                THEN UpTo(@, cleanup_after_seconds) ELSE @,
                        !.elapsed = IF tasks[t].status = "processing"
                                    THEN UpTo(@, Total) ELSE @]]
    /\ slept' = [w \in Workers |-> IF pc[w] = "sleep" THEN UpTo(slept[w], tick) ELSE 0]
    /\ poll' = [poll EXCEPT !.left = IF @ > 0 THEN @ - 1 ELSE 0]
    /\ ret' = NoRet
    /\ UNCHANGED <<queue, unfinished, seq, nextId, phase, pc, cur,
                   must_cancel, sweeper, active>>

\* ---------------------------------------------------------- API long-poll
\* The status of the record object a handler holds: the object stays alive
\* and keeps its last status after the sweeper has removed it from the table.
CurrentStatus(p) ==
    IF p.task \in DOMAIN tasks THEN tasks[p.task].status ELSE p.held

\* Mutant of StatusCode: the code is not adjusted to the status.
StatusCode_Always200(kind, status) == 200

\* cancel_task, lines 182-184 and 204-206; get_task answers 200.
StatusCode(kind, status) ==
    IF kind = "DELETE" /\ status = "processing" THEN 202 ELSE 200

\* Mutant of Response: the code set before the wait is not adjusted after it.
Response_StaleCode(p) ==
    [p EXCEPT !.state = "returned",
              !.status = CurrentStatus(p),
              !.code = IF p.kind = "DELETE" /\ p.state = "waiting"
                       THEN 202
                       ELSE StatusCode(p.kind, CurrentStatus(p))]

\* A handler returns the info of the record it holds.
Response(p) ==
    [p EXCEPT !.state = "returned",
              !.status = CurrentStatus(p),
              !.code = StatusCode(p.kind, CurrentStatus(p))]

\* The handler arms the record's event (clears it if set) and suspends in
\* asyncio.wait_for(event.wait(), timeout): api.py lines 84-88 and 190-195.
Armed(kind, task_id, timeout) ==
    [NoPoll EXCEPT !.state = "waiting", !.kind = kind, !.task = task_id,
                   !.left = timeout, !.fut = "pending"]

\* A task id in a request path that UUID() rejects (api.py:72-75, 169-172);
\* every other id parses.
Malformed == 0
IsUUID(task_id) == task_id # Malformed

\* api.py get_task: 404 for a malformed or unknown id; the info at once without wait;
\* with wait=true the long-poll.
GetTask(task_id, wait, timeout) ==
    /\ active = 0
    /\ Serving
    /\ poll.state = "none"
    /\ IF task_id \notin DOMAIN tasks
       THEN /\ poll' = [NoPoll EXCEPT !.state = "returned", !.kind = "GET",
                                      !.task = task_id, !.code = 404]
            /\ UNCHANGED tasks
       ELSE IF ~wait
       THEN /\ poll' = Response([NoPoll EXCEPT !.kind = "GET", !.task = task_id])
            /\ UNCHANGED tasks
       ELSE /\ poll' = Armed("GET", task_id, timeout)
            /\ tasks' = [tasks EXCEPT ![task_id].event = FALSE]
    /\ ret' = NoRet
    /\ UNCHANGED <<queue, unfinished, seq, nextId, phase, pc, cur, slept,
                   must_cancel, sweeper, active>>

\* api.py cancel_task: 404 for a malformed id; TaskManager.cancel, 404 for an
\* unknown id or a terminal task; 202 or 200 at once without wait; with wait=true the
\* long-poll for the next change.
CancelTask(task_id, wait, timeout) ==
    /\ active = 0
    /\ Serving
    /\ poll.state = "none"
    /\ IF task_id \notin DOMAIN tasks \/ IsTerminal(tasks[task_id].status)
       THEN /\ poll' = [NoPoll EXCEPT !.state = "returned", !.kind = "DELETE",
                                      !.task = task_id, !.code = 404]
            /\ ret' = IF ~IsUUID(task_id) THEN NoRet
                       ELSE IF task_id \notin DOMAIN tasks THEN None
                       ELSE "NotCancellable"
            /\ UNCHANGED tasks
       ELSE /\ ret' = CancelRecord(tasks[task_id]).status
            /\ IF ~wait
               THEN /\ tasks' = [tasks EXCEPT ![task_id] = CancelRecord(@)]
                    /\ poll' = [NoPoll EXCEPT
                                   !.state = "returned", !.kind = "DELETE",
                                   !.task = task_id,
                                   !.status = CancelRecord(tasks[task_id]).status,
                                   !.code = StatusCode("DELETE",
                                               CancelRecord(tasks[task_id]).status)]
               ELSE /\ tasks' = [tasks EXCEPT ![task_id] =
                                    [CancelRecord(@) EXCEPT !.event = FALSE]]
                    /\ poll' = Armed("DELETE", task_id, timeout)
    /\ UNCHANGED <<queue, unfinished, seq, nextId, phase, pc, cur, slept,
                   must_cancel, sweeper, active>>

\* The event fired: event.wait() returns and the handler answers with the
\* latest info (api.py lines 93-96 and 196-208).
PollWake ==
    /\ active = 0
    /\ poll.state = "waiting"
    /\ poll.fut = "done"
    /\ poll' = Response(poll)
    /\ ret' = NoRet
    /\ UNCHANGED <<tasks, queue, unfinished, seq, nextId, phase, pc, cur, slept,
                   must_cancel, sweeper, active>>

\* The timeout ran out first: asyncio.TimeoutError is swallowed and the
\* handler answers with the state the record has now (api.py lines 89-96 and
\* 199-208).
PollTimeout ==
    /\ active = 0
    /\ poll.state = "waiting"
    /\ poll.fut = "pending"
    /\ poll.left = 0
    /\ poll' = Response(poll)
    /\ ret' = NoRet
    /\ UNCHANGED <<tasks, queue, unfinished, seq, nextId, phase, pc, cur, slept,
                   must_cancel, sweeper, active>>

\* The step is the task manager's or a handler's: the rate limiter is not
\* called and no response is recorded.
LimiterIdle == UNCHANGED <<limiter, history, http, stream>>

\* Every step but submit.
Others ==
    \/ \E t \in TaskIds : Cancel(t) /\ LimiterIdle
    \/ Start /\ LimiterIdle
    \/ Stop /\ LimiterIdle
    \/ StopReturn /\ LimiterIdle
    \/ \E w \in Workers : WorkerGet(w) /\ LimiterIdle
    \/ \E w \in Workers : WorkerBlock(w) /\ LimiterIdle
    \/ \E w \in Workers : WorkerProcess(w) /\ LimiterIdle
    \/ \E w \in Workers : WrappedTick(w) /\ LimiterIdle
    \/ \E w \in Workers : WorkerExcept(w) /\ LimiterIdle
    \/ \E w \in Workers : WorkerCancelled(w) /\ LimiterIdle
    \/ CleanupLoop /\ LimiterIdle
    \/ CleanupCancelled /\ LimiterIdle
    \/ AdvanceClock /\ LimiterIdle

Next ==
    \/ \E tt \in TaskTypes, p \in Priorities :
          Submit(tt, p) /\ LimiterIdle
    \/ Others

Spec == Init /\ [][Next]_vars

\* The same program with at most MaxFairTasks submissions, for the
\* properties that need fairness.
FairNext ==
    \/ \E tt \in TaskTypes, p \in Priorities :
          nextId <= MaxFairTasks /\ Submit(tt, p) /\ LimiterIdle
    \/ Others

\* Workers and the clock are scheduled fairly: the event loop runs every
\* ready callback, and time passes.
Fairness ==
    /\ \A w \in Workers : WF_vars(WorkerGet(w) /\ LimiterIdle)
    /\ \A w \in Workers : WF_vars(WorkerBlock(w) /\ LimiterIdle)
    /\ \A w \in Workers : WF_vars(WorkerProcess(w) /\ LimiterIdle)
    /\ \A w \in Workers : WF_vars(WrappedTick(w) /\ LimiterIdle)
    /\ \A w \in Workers : WF_vars(WorkerExcept(w) /\ LimiterIdle)
    /\ \A w \in Workers : WF_vars(WorkerCancelled(w) /\ LimiterIdle)
    /\ WF_vars(CleanupLoop /\ LimiterIdle)
    /\ WF_vars(CleanupCancelled /\ LimiterIdle)
    /\ WF_vars(StopReturn /\ LimiterIdle)
    /\ WF_vars(AdvanceClock /\ LimiterIdle)

FairSpec == Init /\ [][FairNext]_vars /\ Fairness

\* The program with one API request (GET or DELETE, with or without
\* long-poll) and at most MaxPollTasks submissions, under the same fairness;
\* a suspended handler is resumed once its event has fired or its timeout
\* has run out.
PollNext ==
    \/ \E tt \in TaskTypes, p \in Priorities :
          nextId <= MaxPollTasks /\ Submit(tt, p) /\ LimiterIdle
    \/ Others
    \/ \E t \in 0..(MaxPollTasks + 1), wait \in BOOLEAN, timeout \in 1..MaxTimeout :
          GetTask(t, wait, timeout) /\ LimiterIdle
    \/ \E t \in 0..(MaxPollTasks + 1), wait \in BOOLEAN, timeout \in 1..MaxTimeout :
          CancelTask(t, wait, timeout) /\ LimiterIdle
    \/ PollWake /\ LimiterIdle
    \/ PollTimeout /\ LimiterIdle

PollSpec ==
    /\ Init
    /\ [][PollNext]_vars
    /\ Fairness
    /\ WF_vars(PollWake /\ LimiterIdle)
    /\ WF_vars(PollTimeout /\ LimiterIdle)

\* ========================================================== the rate limiter
\* api/apps/tasks/services/rate_limiter.py.  A timestamp is kept as its age,
\* now - timestamp: `dq[0] < cutoff` with cutoff = now - period_seconds is
\* age > period_seconds.  Ages are counted up to period_seconds + 1.  Every
\* method takes `now` and then the lock, which is free (no holder awaits
\* inside it), so each call is one uninterrupted step.

\* Mutant of Bucket: one deque is shared by all keys.
Bucket_Shared(key) ==
    IF DOMAIN buckets # {} THEN buckets[CHOOSE k \in DOMAIN buckets : TRUE] ELSE <<>>

\* self._buckets.get(key, deque())
Bucket(key) == IF key \in DOMAIN buckets THEN buckets[key] ELSE <<>>

\* Mutant of Expired_ts: a timestamp exactly period_seconds old is dropped.
Expired_ts_Early(age) == age >= period_seconds

\* dq[0] < cutoff
Expired_ts(age) == age > period_seconds

\* Mutant of Pruned: expired timestamps are left to the sweeper.
Pruned_Never(dq) == dq

\* while dq and dq[0] < cutoff: dq.popleft()
RECURSIVE Pruned(_)
Pruned(dq) ==
    IF dq # <<>> /\ Expired_ts(Head(dq)) THEN Pruned(Tail(dq)) ELSE dq

\* Mutant of AtLimit: one request too many is let through.
AtLimit_OffByOne(dq) == Len(dq) > max_requests

\* allow, line 65: len(dq) >= self.max_requests
AtLimit(dq) == Len(dq) >= max_requests

\* The histories after a step that calls allow(key) with result ok.  A burst
\* begins with the call that finds the bucket empty and is counted for
\* period_seconds, the window of its first call.
Admit(key, ok) ==
    [admitted EXCEPT ![key] = IF ok THEN Append(@, 0) ELSE @]

Counted(key, ok) ==
    LET b == IF Pruned(Bucket(key)) = <<>> THEN NoBurst ELSE burst[key]
    IN [burst EXCEPT ![key] =
           IF b.age > period_seconds
           THEN b
           ELSE [b EXCEPT !.n = IF b.n < MaxBurst THEN b.n + 1 ELSE MaxBurst,
                          !.granted = IF ok THEN b.granted + 1 ELSE b.granted]]

\* Mutant of Allow: a refused call is stamped too.
Allow_StampsRefused(key) ==
    LET dq == Pruned(Bucket(key))
        ok == ~AtLimit(dq)
    IN /\ buckets' = With(buckets, key, Append(dq, 0))
       /\ called' = [op |-> "allow", key |-> key, value |-> IF ok THEN 1 ELSE 0]
       /\ UNCHANGED <<cleanup_task, cleanup_slept>>

\* RateLimiter.allow
Allow(key) ==
    LET dq == Pruned(Bucket(key))
        ok == ~AtLimit(dq)
    IN /\ buckets' = With(buckets, key, IF ok THEN Append(dq, 0) ELSE dq)
       /\ called' = [op |-> "allow", key |-> key, value |-> IF ok THEN 1 ELSE 0]
       /\ UNCHANGED <<cleanup_task, cleanup_slept>>

\* Mutant of Left: the number used is returned.
Left_Used(dq) == Len(dq)

\* max(0, self.max_requests - len(dq))
Left(dq) == IF max_requests - Len(dq) > 0 THEN max_requests - Len(dq) ELSE 0

\* RateLimiter.remaining: the bucket is pruned in place; a key without a
\* bucket gets none.
LimiterRemaining(key) ==
    /\ buckets' = IF key \in DOMAIN buckets
                  THEN [buckets EXCEPT ![key] = Pruned(@)]
                  ELSE buckets
    /\ called' = [op |-> "remaining", key |-> key, value |-> Left(Pruned(Bucket(key)))]
    /\ UNCHANGED <<cleanup_task, cleanup_slept>>

\* RateLimiter.reset(key)
Reset(key) ==
    /\ buckets' = Without(buckets, {key})
    /\ called' = [op |-> "reset", key |-> key, value |-> 0]
    /\ UNCHANGED <<cleanup_task, cleanup_slept>>

\* RateLimiter.reset(None)
ResetAll ==
    /\ buckets' = <<>>
    /\ called' = [op |-> "reset", key |-> "None", value |-> 0]
    /\ UNCHANGED <<cleanup_task, cleanup_slept>>

\* RateLimiter.start_cleanup
StartCleanup ==
    /\ cleanup_task = "none"
    /\ cleanup_task' = "sleep"
    /\ cleanup_slept' = 0
    /\ called' = NoCall
    /\ UNCHANGED buckets

\* RateLimiter.stop_cleanup, lines 31-32: the loop is cancelled.
StopCleanup ==
    /\ cleanup_task = "sleep"
    /\ cleanup_task' = "cancel"
    /\ called' = NoCall
    /\ UNCHANGED <<buckets, cleanup_slept>>

\* The cancelled loop ends in its sleep and stop_cleanup, lines 33-37, returns.
StopCleanupReturn ==
    /\ cleanup_task = "cancel"
    /\ cleanup_task' = "none"
    /\ cleanup_slept' = 0
    /\ called' = NoCall
    /\ UNCHANGED buckets

\* Mutant of Swept: the sweeper also drops the timestamps that are exactly
\* period_seconds old.
RECURSIVE PrunedAtCutoff(_)
PrunedAtCutoff(dq) ==
    IF dq # <<>> /\ Head(dq) >= period_seconds THEN PrunedAtCutoff(Tail(dq)) ELSE dq

Swept_AtCutoff(bs) ==
    [k \in {j \in DOMAIN bs : PrunedAtCutoff(bs[j]) # <<>>} |-> PrunedAtCutoff(bs[k])]

\* Mutant of Swept: empty buckets are kept.
Swept_KeepsEmpty(bs) == [k \in DOMAIN bs |-> Pruned(bs[k])]

\* RateLimiter._cleanup_once, lines 49-56.
Swept(bs) ==
    [k \in {j \in DOMAIN bs : Pruned(bs[j]) # <<>>} |-> Pruned(bs[k])]

\* RateLimiter._cleanup_loop: one pass, once the sleep has ended.
LimiterCleanupLoop ==
    /\ cleanup_task = "sleep"
    /\ cleanup_slept >= cleanup_interval
    /\ buckets' = Swept(buckets)
    /\ cleanup_slept' = 0
    /\ called' = [op |-> "sweep", key |-> "None", value |-> 0]
    /\ UNCHANGED cleanup_task

\* One second passes for the rate limiter: every timestamp is a second older.
Older(dq) ==
    [i \in 1..Len(dq) |-> IF dq[i] <= period_seconds THEN dq[i] + 1 ELSE dq[i]]

\* The admissions still within the last period_seconds, a second later.
RECURSIVE InWindow(_)
InWindow(dq) ==
    IF dq # <<>> /\ Head(dq) >= period_seconds THEN InWindow(Tail(dq)) ELSE Older(dq)

LimiterTick ==
    /\ buckets' = [k \in DOMAIN buckets |-> Older(buckets[k])]
    /\ cleanup_slept' = IF cleanup_task = "sleep" /\ cleanup_slept < cleanup_interval
                        THEN cleanup_slept + 1 ELSE cleanup_slept
    /\ called' = NoCall
    /\ UNCHANGED cleanup_task

\* ------------------------------------------- allow, statement by statement
\* allow reads the clock (line 59) before it takes the lock (line 61).  The
\* lock is free whenever a call reaches it, so the call is never suspended
\* between the two and no other call of the limiter runs in between; only
\* time passes.  `called` with op "now" is such a call: `value` is the time
\* that has passed since its clock reading.

\* allow, lines 59-60: now = time.monotonic(); cutoff = now - period.
AllowNow(key) ==
    /\ called.op # "now"
    /\ called' = [op |-> "now", key |-> key, value |-> 0]
    /\ UNCHANGED <<buckets, cleanup_task, cleanup_slept>>

\* dq[0] < cutoff, for a cutoff computed `delay` seconds ago.
RECURSIVE PrunedAt(_, _)
PrunedAt(dq, delay) ==
    IF dq # <<>> /\ Expired_ts(Head(dq) - delay)
    THEN PrunedAt(Tail(dq), delay)
    ELSE dq

\* Mutant of Stamped: the timestamp is put at the head.
Stamped_AtHead(dq, age) == <<age>> \o dq

\* allow, line 67: dq.append(now)
Stamped(dq, age) == Append(dq, age)

\* allow, lines 61-68, with the `now` and the cutoff of lines 59-60.
AllowLocked ==
    /\ called.op = "now"
    /\ LET key == called.key
           dq == PrunedAt(Bucket(key), called.value)
           ok == ~AtLimit(dq)
       IN /\ buckets' = With(buckets, key,
                             IF ok THEN Stamped(dq, called.value) ELSE dq)
          /\ called' = [op |-> "allow", key |-> key,
                        value |-> IF ok THEN 1 ELSE 0]
    /\ UNCHANGED <<cleanup_task, cleanup_slept>>

\* One second passes, also for a call between its clock reading and the
\* lock.  Ages are counted up to period_seconds + MaxDelay + 1.
OlderUpTo(dq, cap) ==
    [i \in 1..Len(dq) |-> IF dq[i] < cap THEN dq[i] + 1 ELSE dq[i]]

ClockTick ==
    /\ called.op = "now" => called.value < MaxDelay
    /\ buckets' = [k \in DOMAIN buckets |->
                      OlderUpTo(buckets[k], period_seconds + MaxDelay + 1)]
    /\ cleanup_slept' = IF cleanup_task = "sleep" /\ cleanup_slept < cleanup_interval
                        THEN cleanup_slept + 1 ELSE cleanup_slept
    /\ called' = IF called.op = "now"
                 THEN [called EXCEPT !.value = @ + 1]
                 ELSE NoCall
    /\ UNCHANGED cleanup_task

\* The task manager is not called.
ManagerIdle == UNCHANGED tmvars

\* The histories after the step, from the call it made (`called`, read
\* before and after the step together with the bucket the call found).
Recorded ==
    /\ admitted' =
          CASE called'.op = "allow" -> Admit(called'.key, called'.value = 1)
            [] called'.op = "reset" ->
                  [k \in Keys |-> IF called'.key \in {k, "None"}
                                  THEN <<>> ELSE admitted[k]]
            [] called'.op \in {"remaining", "sweep"} -> admitted
            [] OTHER -> admitted
    /\ burst' =
          CASE called'.op = "allow" -> Counted(called'.key, called'.value = 1)
            [] called'.op = "reset" ->
                  [k \in Keys |-> IF called'.key \in {k, "None"}
                                  THEN NoBurst ELSE burst[k]]
            [] OTHER -> burst

\* The histories a second later.
RecordedTick ==
    /\ admitted' = [k \in Keys |-> InWindow(admitted[k])]
    /\ burst' = [k \in Keys |->
                    IF burst[k].n = 0 THEN burst[k]
                    ELSE [burst[k] EXCEPT !.age =
                             IF @ <= period_seconds THEN @ + 1 ELSE @]]

\* The rate limiter on its own, called by any client at any time.
LimiterNext ==
    \/ \E k \in Keys : Allow(k) /\ Recorded /\ ManagerIdle /\ UNCHANGED <<http, stream>>
    \/ \E k \in Keys : LimiterRemaining(k) /\ Recorded /\ ManagerIdle /\ UNCHANGED <<http, stream>>
    \/ \E k \in Keys : Reset(k) /\ Recorded /\ ManagerIdle /\ UNCHANGED <<http, stream>>
    \/ ResetAll /\ Recorded /\ ManagerIdle /\ UNCHANGED <<http, stream>>
    \/ StartCleanup /\ Recorded /\ ManagerIdle /\ UNCHANGED <<http, stream>>
    \/ StopCleanup /\ Recorded /\ ManagerIdle /\ UNCHANGED <<http, stream>>
    \/ StopCleanupReturn /\ Recorded /\ ManagerIdle /\ UNCHANGED <<http, stream>>
    \/ LimiterCleanupLoop /\ Recorded /\ ManagerIdle /\ UNCHANGED <<http, stream>>
    \/ LimiterTick /\ RecordedTick /\ ManagerIdle /\ UNCHANGED <<http, stream>>

LimiterSpec == Init /\ [][LimiterNext]_vars

\* The rate limiter with allow taken statement by statement: while a call is
\* between its clock reading and the lock, nothing but the clock moves.
ClockIdle == UNCHANGED <<tmvars, history, http, stream>>

ClockNext ==
    \/ \E k \in Keys : AllowNow(k) /\ ClockIdle
    \/ AllowLocked /\ ClockIdle
    \/ ClockTick /\ ClockIdle
    \/ \E k \in Keys : called.op # "now" /\ LimiterRemaining(k) /\ ClockIdle
    \/ \E k \in Keys : called.op # "now" /\ Reset(k) /\ ClockIdle
    \/ called.op # "now" /\ StartCleanup /\ ClockIdle
    \/ called.op # "now" /\ LimiterCleanupLoop /\ ClockIdle

ClockSpec == Init /\ [][ClockNext]_vars

\* ============================================================ the HTTP router
\* api.py: every route of the router depends on enforce_rate_limit
\* (lines 16-20), which runs before the handler.  allow does not suspend, so
\* the dependency and the handler's first run, up to its first suspension
\* point, are one step.

\* Mutant of Denies: the result of allow is ignored.
Denies_Never(value) == FALSE

\* enforce_rate_limit, line 7: `if not await rl.allow(key)`.
Denies(value) == value = 0

\* enforce_rate_limit raises HTTPException(429): the handler is not called.
TooManyRequests(key, method) ==
    /\ http' = [key |-> key, method |-> method, code |-> 429]
    /\ ManagerIdle

\* The response of a GET or DELETE handler; 0 while it is suspended in its
\* long-poll.
PollCode(p) == IF p.state = "returned" THEN p.code ELSE 0

\* POST /api/v1/tasks: create_task, 202 or 503 on QueueFull.
CreateTask(key, task_type, priority) ==
    /\ Allow(key)
    /\ IF Denies(called'.value)
       THEN TooManyRequests(key, "POST")
       ELSE /\ nextId <= MaxApiTasks
            /\ Submit(task_type, priority)
            /\ http' = [key |-> key, method |-> "POST",
                        code |-> IF ret' = "QueueFull" THEN 503 ELSE 202]

\* GET /api/v1/tasks/{task_id}
GetTaskRoute(key, task_id, wait, timeout) ==
    /\ Allow(key)
    /\ IF Denies(called'.value)
       THEN TooManyRequests(key, "GET")
       ELSE /\ GetTask(task_id, wait, timeout)
            /\ http' = [key |-> key, method |-> "GET", code |-> PollCode(poll')]

\* GET /api/v1/tasks: list_tasks returns the stream, which reads the table
\* later (ListOpen and StreamNext follow one such stream).
ListTasks(key) ==
    /\ Allow(key)
    /\ IF Denies(called'.value)
       THEN TooManyRequests(key, "LIST")
       ELSE /\ active = 0
            /\ Serving
            /\ http' = [key |-> key, method |-> "LIST", code |-> 200]
            /\ ManagerIdle

\* DELETE /api/v1/tasks/{task_id}
CancelTaskRoute(key, task_id, wait, timeout) ==
    /\ Allow(key)
    /\ IF Denies(called'.value)
       THEN TooManyRequests(key, "DELETE")
       ELSE /\ CancelTask(task_id, wait, timeout)
            /\ http' = [key |-> key, method |-> "DELETE", code |-> PollCode(poll')]

\* The clients of a run of ApiSpec.
ApiKeys == {"10.0.0.1"}

\* A step of the task manager's own coroutines: no request is handled.
NoRequest ==
    /\ called' = NoCall
    /\ http' = NoHttp
    /\ UNCHANGED <<buckets, cleanup_task, cleanup_slept, history, stream>>

\* The histories are not kept, and no listing is followed.
Unrecorded == UNCHANGED <<history, stream>>

\* One second passes for the whole application.
Tick == AdvanceClock /\ LimiterTick /\ Unrecorded /\ http' = NoHttp

\* The application while it serves (main.py, app_lifespan up to its yield):
\* the task manager is called through the router only, by clients with the
\* keys of ApiKeys; one GET or DELETE request runs its handler, and at most
\* MaxApiTasks tasks are submitted.
ApiNext ==
    \/ \E k \in ApiKeys, tt \in TaskTypes, p \in Priorities : CreateTask(k, tt, p) /\ Unrecorded
    \/ \E k \in ApiKeys, t \in 0..(MaxApiTasks + 1), wait \in BOOLEAN :
          GetTaskRoute(k, t, wait, 1) /\ Unrecorded
    \/ \E k \in ApiKeys : ListTasks(k) /\ Unrecorded
    \/ \E k \in ApiKeys, t \in 0..(MaxApiTasks + 1), wait \in BOOLEAN :
          CancelTaskRoute(k, t, wait, 1) /\ Unrecorded
    \/ PollWake /\ NoRequest
    \/ PollTimeout /\ NoRequest
    \/ Start /\ NoRequest
    \/ \E w \in Workers : WorkerGet(w) /\ NoRequest
    \/ \E w \in Workers : WorkerBlock(w) /\ NoRequest
    \/ \E w \in Workers : WorkerProcess(w) /\ NoRequest
    \/ \E w \in Workers : WrappedTick(w) /\ NoRequest
    \/ \E w \in Workers : WorkerExcept(w) /\ NoRequest
    \/ CleanupLoop /\ NoRequest
    \/ StartCleanup /\ Unrecorded /\ ManagerIdle /\ http' = NoHttp
    \/ LimiterCleanupLoop /\ Unrecorded /\ ManagerIdle /\ http' = NoHttp
    \/ Tick

ApiSpec == Init /\ [][ApiNext]_vars

\* ============================================================== the listing
\* api.py, list_tasks: the handler returns a StreamingResponse over the
\* generator _stream, which runs later, item by item, between the steps of
\* the other coroutines.  `stream` is that generator: the snapshot it took
\* (task ids, in the order of the table), the position it has reached, the
\* lines it has yielded (task id and the status serialised) and the status
\* of the records of the snapshot that have left the table since.

\* list(tm.tasks.values()): the records in insertion order.  Ids are drawn in
\* increasing order, so that is the order of the ids.
RECURSIVE Ascending(_)
Ascending(S) ==
    IF S = {} THEN <<>>
    ELSE LET m == CHOOSE x \in S : \A y \in S : x <= y
         IN <<m>> \o Ascending(S \ {m})

\* The records of the snapshot the generator has not visited yet.
Pending(s) == {s.snap[i] : i \in (s.pos + 1)..Len(s.snap)}

\* rec.info.status of a record of the snapshot: the object keeps its status
\* after the sweeper has removed it from the table.
StatusOf(s, t) == IF t \in DOMAIN tasks THEN tasks[t].status ELSE s.gone[t]

\* line 124, negated: not (status_filter and rec.info.status != status_filter)
Matches(status_filter, status) ==
    status_filter = None \/ status = status_filter

\* Mutant of Exhausted: one line more than `limit` is yielded.
Exhausted_OffByOne(count, limit) == count > limit

\* line 133: count >= limit
Exhausted(count, limit) == count >= limit

\* The position of the first record after s.pos that passes the filter; 0 if
\* there is none (the `continue` of line 125 does not suspend).
NextMatch(s) ==
    LET c == {i \in (s.pos + 1)..Len(s.snap) :
                 Matches(s.filter, StatusOf(s, s.snap[i]))}
    IN IF c = {} THEN 0 ELSE CHOOSE i \in c : \A j \in c : i <= j

\* list_tasks, lines 107-140: the handler builds the generator and returns.
ListOpen(status_filter, limit) ==
    /\ active = 0
    /\ Serving
    /\ stream.state = "none"
    /\ stream' = [NoStream EXCEPT !.state = "new",
                                  !.filter = status_filter,
                                  !.limit = limit]

\* _stream, lines 120-136, from one suspension to the next: on its first run
\* the snapshot is taken; records that do not pass the filter are skipped;
\* the next one is serialised and yielded, count is incremented and the
\* generator ends (break, or snapshot exhausted) or sleeps.
StreamNext ==
    /\ active = 0
    /\ stream.state \in {"new", "open"}
    /\ LET s == IF stream.state = "new"
                THEN [stream EXCEPT !.snap = Ascending(DOMAIN tasks)]
                ELSE stream
           i == NextMatch(s)
           out == Append(s.out, <<s.snap[i], StatusOf(s, s.snap[i])>>)
           kept == {t \in DOMAIN s.gone : \E j \in (i + 1)..Len(s.snap) : s.snap[j] = t}
       IN stream' =
             IF i = 0
             THEN [s EXCEPT !.state = "closed", !.pos = Len(s.snap), !.gone = <<>>]
             ELSE [s EXCEPT !.out = out,
                            !.pos = i,
                            !.gone = [t \in kept |-> s.gone[t]],
                            !.state = IF Exhausted(Len(out), s.limit)
                                      THEN "closed" ELSE "open"]

\* A step of the task manager while a listing is in flight: the records of
\* the snapshot that leave the table stay alive in the generator's list.
StreamHolds ==
    /\ stream' = [stream EXCEPT !.gone =
                     [t \in {u \in Pending(stream) : u \notin DOMAIN tasks'} |->
                         IF t \in DOMAIN tasks THEN tasks[t].status
                         ELSE stream.gone[t]]]
    /\ UNCHANGED <<limiter, history, http>>

\* The handler and its generator do not call the task manager's methods.
ListIdle == UNCHANGED <<tmvars, limiter, history, http>>

\* The values of the query parameter `status`.
Filters == {None, "queued", "processing", "completed", "failed", "cancelled"}

\* The task manager while it serves, with one list_tasks request.
ListNext ==
    \/ \E tt \in TaskTypes, p \in Priorities :
          nextId <= MaxListTasks /\ Submit(tt, p) /\ StreamHolds
    \/ \E t \in 1..MaxListTasks : Cancel(t) /\ StreamHolds
    \/ Start /\ StreamHolds
    \/ \E w \in Workers : WorkerGet(w) /\ StreamHolds
    \/ \E w \in Workers : WorkerBlock(w) /\ StreamHolds
    \/ \E w \in Workers : WorkerProcess(w) /\ StreamHolds
    \/ \E w \in Workers : WrappedTick(w) /\ StreamHolds
    \/ \E w \in Workers : WorkerExcept(w) /\ StreamHolds
    \/ CleanupLoop /\ StreamHolds
    \/ AdvanceClock /\ StreamHolds
    \/ \E f \in Filters, L \in 1..MaxLimit : ListOpen(f, L) /\ ListIdle
    \/ StreamNext /\ ListIdle

ListSpec == Init /\ [][ListNext]_vars

\* The task manager while it serves, with submit taken statement by
\* statement, get and cancel called at any time and one unfiltered
\* list_tasks request; every task is a generate_report of priority 0.
SubmitNext ==
    \/ SubmitInsert("generate_report") /\ StreamHolds
    \/ SubmitPut(0) /\ StreamHolds
    \/ \E t \in TaskIds : Get(t) /\ StreamHolds
    \/ \E t \in TaskIds : Cancel(t) /\ StreamHolds
    \/ Start /\ StreamHolds
    \/ \E w \in Workers : WorkerGet(w) /\ StreamHolds
    \/ \E w \in Workers : WorkerBlock(w) /\ StreamHolds
    \/ \E w \in Workers : WorkerProcess(w) /\ StreamHolds
    \/ \E w \in Workers : WrappedTick(w) /\ StreamHolds
    \/ \E w \in Workers : WorkerExcept(w) /\ StreamHolds
    \/ CleanupLoop /\ StreamHolds
    \/ AdvanceClock /\ StreamHolds
    \/ ListOpen(None, MaxTasks) /\ ListIdle
    \/ StreamNext /\ ListIdle

SubmitSpec == Init /\ [][SubmitNext]_vars

\* ===================================================================== claims
\* The queue entry of task t, if it has one.
Entries(t) == {e \in queue : e[3] = t}

\* The step is a submit() call: it draws a task id.
SubmitStep == nextId' = nextId + 1

\* ------------------------------------------------------------------------ C1
LegalChanges ==
    { <<"queued", "processing">>, <<"queued", "cancelled">>,
      <<"processing", "completed">>, <<"processing", "failed">>,
      <<"processing", "cancelled">> }

\* C1: in every step, for every task, a change of the record's status is one
\* of queued->processing, queued->cancelled, processing->completed,
\* processing->failed, processing->cancelled; a status that is completed,
\* failed or cancelled never changes.
C1_StatusTransitions ==
    [][\A t \in (DOMAIN tasks) \cap (DOMAIN tasks') :
          /\ tasks'[t].status # tasks[t].status
                => <<tasks[t].status, tasks'[t].status>> \in LegalChanges
          /\ tasks[t].status \in Terminal
                => tasks'[t].status = tasks[t].status]_vars

\* Every kind of agent has acted: a task completed, one was cancelled at a
\* checkpoint, one was cancelled while queued, and stop() was called.
C1_Witness ==
    /\ phase = "stopping"
    /\ \E t \in DOMAIN tasks : tasks[t].status \in {"completed", "failed"}
    /\ \E t \in DOMAIN tasks :
          tasks[t].status = "cancelled" /\ tasks[t].error = "Cancelled during processing"

\* ------------------------------------------------------------------------ C2
\* C2: a submit made while the queue holds max_queue_size entries fails with
\* QueueFull and leaves the task table and the queue as they were.
C2_QueueFullRollback ==
    [][(SubmitStep /\ Cardinality(queue) = max_queue_size)
          => (ret' = "QueueFull" /\ tasks' = tasks /\ queue' = queue)]_vars

\* A submit has failed on a full queue while no worker had taken anything:
\* max_queue_size accepted submissions, then the failing one.
C2_Witness ==
    /\ ret = "QueueFull"
    /\ Cardinality(queue) = max_queue_size
    /\ unfinished = max_queue_size
    /\ nextId = max_queue_size + 2

\* ------------------------------------------------------------------------ C3
\* C3: the queue never holds more than max_queue_size entries.
C3_QueueBounded == Cardinality(queue) <= max_queue_size

\* The queue is at capacity again after workers have dequeued entries.
C3_Witness ==
    /\ Cardinality(queue) = max_queue_size
    /\ \E w \in Workers : pc[w] = "sleep"

\* -------------------------------------------------------------------- C4, C5
\* The record of the task of queue entry e is still queued.
StillQueued(e) == e[3] \in DOMAIN tasks /\ tasks[e[3]].status = "queued"

\* The step takes entry e out of the queue and moves its task to processing.
BeginsProcessing(e) ==
    /\ e[3] \in DOMAIN tasks'
    /\ tasks'[e[3]].status = "processing"
    /\ \E w \in Workers : cur'[w] = e

\* C4 as stated: whenever entries A and B are both in the queue and
\* priority(A) < priority(B), B is not the entry a step takes out, and the
\* step that takes A out moves A to processing.
C4_AsStated ==
    [][\A A \in queue, B \in queue :
          A[1] < B[1] => /\ B \in queue'
                         /\ A \notin queue' => BeginsProcessing(A)]_vars

\* C4, amended: whenever entries A and B are both in the queue and
\* priority(A) < priority(B), B is not the entry a step takes out; the step
\* that takes A out moves A to processing if A's record is still queued, and
\* otherwise (A was cancelled while queued) leaves A's record as it is.
C4_PriorityOrder ==
    [][\A A \in queue, B \in queue :
          A[1] < B[1] =>
             /\ B \in queue'
             /\ A \notin queue' =>
                   IF StillQueued(A) THEN BeginsProcessing(A)
                   ELSE UNCHANGED tasks]_vars

\* A task submitted later with a smaller priority number is being processed
\* while the earlier one, with the larger number, still waits in the queue.
C4_Witness ==
    \E w \in Workers, B \in queue :
       /\ pc[w] = "sleep"
       /\ cur[w][1] < B[1]
       /\ cur[w][3] > B[3]
       /\ tasks[cur[w][3]].status = "processing"
       /\ StillQueued(B)

\* C5: whenever entries A and B of equal priority are both in the queue, with
\* both records queued and A submitted first (task ids are drawn in submit
\* order), B is not the entry a step takes out, and the step that takes A out
\* moves A to processing.
C5_FifoWithinPriority ==
    [][\A A \in queue, B \in queue :
          (A[1] = B[1] /\ A[3] < B[3] /\ StillQueued(A) /\ StillQueued(B))
             => /\ B \in queue'
                /\ A \notin queue' => BeginsProcessing(A)]_vars

\* The first of two tasks of equal priority is being processed while the
\* second still waits in the queue.
C5_Witness ==
    \E w \in Workers, B \in queue :
       /\ pc[w] = "sleep"
       /\ cur[w][1] = B[1]
       /\ cur[w][3] < B[3]
       /\ tasks[cur[w][3]].status = "processing"
       /\ StillQueued(B)

\* ------------------------------------------------------------------------ C6
\* C6: a cancel() call on a task whose status is queued leaves, in the step
\* of the call itself, status cancelled, error "Cancelled before processing",
\* cancel_requested set and the notifier fired, and returns status cancelled;
\* no worker moves in that step and the queue is not touched.
C6_CancelQueued ==
    [][\A t \in DOMAIN tasks :
          (Cancel(t) /\ tasks[t].status = "queued")
             => /\ tasks'[t].status = "cancelled"
                /\ tasks'[t].error = "Cancelled before processing"
                /\ tasks'[t].cancel_requested
                /\ tasks'[t].event
                /\ ret' = "cancelled"
                /\ UNCHANGED <<pc, cur, queue, unfinished, active>>]_vars

\* cancel() has just returned status cancelled for a task whose entry is
\* still in the queue.
C6_Witness ==
    /\ ret = "cancelled"
    /\ \E e \in queue :
          /\ e[3] \in DOMAIN tasks
          /\ tasks[e[3]].status = "cancelled"
          /\ tasks[e[3]].error = "Cancelled before processing"
          /\ tasks[e[3]].event

\* ------------------------------------------------------------------------ C7
\* C7: a cancel() call on a task whose status is completed, failed or
\* cancelled raises TaskNotCancellableError and leaves every record, with its
\* timestamp and its notifier, as it was.
C7_CancelTerminal ==
    [][\A t \in DOMAIN tasks :
          (Cancel(t) /\ tasks[t].status \in Terminal)
             => (ret' = "NotCancellable" /\ tasks' = tasks)]_vars

\* cancel() has been refused, and every task of the table has failed.
C7_Witness ==
    /\ ret = "NotCancellable"
    /\ DOMAIN tasks # {}
    /\ \A t \in DOMAIN tasks : tasks[t].status = "failed"

\* ------------------------------------------------------------------------ C8
\* Worker w is the one executing task t, suspended in the wrapper's sleep.
Executes(w, t) == pc[w] = "sleep" /\ cur[w][3] = t

\* The effect of a cancel() call on a task whose status is processing: the
\* flag set, the notifier fired, the status left alone and returned.
CancelFrame(t) ==
    (Cancel(t) /\ tasks[t].status = "processing")
       => /\ tasks'[t].status = "processing"
          /\ tasks'[t].cancel_requested
          /\ tasks'[t].event
          /\ ret' = "processing"

\* Task t is processing with the flag set.
Flagged(t) == tasks[t].status = "processing" /\ tasks[t].cancel_requested

\* The step leaves task t processing.
StaysProcessing(t) == t \in DOMAIN tasks' /\ tasks'[t].status = "processing"

\* C8 as stated: cancel() on a processing task sets the flag, fires the
\* notifier and returns status processing, and the status of the flagged
\* task then changes only in a step that runs the wrapper's checkpoint.
C8_AsStated ==
    [][\A t \in DOMAIN tasks :
          /\ CancelFrame(t)
          /\ Flagged(t) =>
                \/ StaysProcessing(t)
                \/ \E w \in Workers : Executes(w, t) /\ WrappedTick(w)]_vars

\* C8, amended: cancel() on a processing task sets the flag, fires the
\* notifier and returns status processing, and the status of the flagged
\* task then changes only in a step that runs the wrapper's checkpoint or in
\* the step in which stop()'s cancellation reaches the executing worker.
C8_CancelProcessing ==
    [][\A t \in DOMAIN tasks :
          /\ CancelFrame(t)
          /\ Flagged(t) =>
                \/ StaysProcessing(t)
                \/ \E w \in Workers : Executes(w, t) /\ WrappedTick(w)
                \/ \E w \in Workers : Executes(w, t) /\ WorkerCancelled(w)]_vars

\* cancel() has just returned status processing: the task is flagged and
\* still processing, its worker asleep.
C8_Witness ==
    /\ ret = "processing"
    /\ \E w \in Workers :
          /\ Executes(w, cur[w][3])
          /\ tasks[cur[w][3]].status = "processing"
          /\ tasks[cur[w][3]].cancel_requested
          /\ tasks[cur[w][3]].event

\* ------------------------------------------------------------------------ C9
\* The first checkpoint that runs on a flagged task cancels it.
CheckpointCancels ==
    [][\A w \in Workers :
          (WrappedTick(w) /\ Flagged(cur[w][3]))
             => /\ tasks'[cur[w][3]].status = "cancelled"
                /\ tasks'[cur[w][3]].error = "Cancelled during processing"]_vars

\* A flagged task is cancelled in the end.
FlaggedLeadsToCancelled ==
    \A t \in TaskIds :
       (t \in DOMAIN tasks /\ Flagged(t))
          ~> (t \in DOMAIN tasks /\ tasks[t].status = "cancelled")

\* C9: once cancel() has flagged a processing task, the first run of the
\* wrapper's checkpoint on it sets status cancelled, and under fair
\* scheduling of the workers and of the clock the task does reach status
\* cancelled (it never completes or fails in between).
C9_CancelTakesEffect == CheckpointCancels /\ FlaggedLeadsToCancelled

\* A task flagged by cancel() while processing has been cancelled by the
\* checkpoint and its worker has moved on.
C9_Witness ==
    \E t \in DOMAIN tasks :
       /\ tasks[t].status = "cancelled"
       /\ tasks[t].error = "Cancelled during processing"
       /\ tasks[t].cancel_requested
       /\ \A w \in Workers : cur[w][3] # t

\* ----------------------------------------------------------------------- C10
\* Task t was cancelled while queued.
CancelledQueued(t) ==
    /\ t \in DOMAIN tasks
    /\ tasks[t].status = "cancelled"
    /\ tasks[t].error = "Cancelled before processing"

\* C10: a task cancelled while queued is never executed.  In every step its
\* record, while in the table, stays cancelled with error "Cancelled before
\* processing" and never started (no start time, no progress); no worker
\* holds it; and the step that takes its entry out of the queue acknowledges
\* the slot (task_done) and leaves that worker at the top of its loop.
C10_CancelledNeverRuns ==
    [][\A t \in DOMAIN tasks :
          CancelledQueued(t) =>
             /\ t \in DOMAIN tasks' =>
                   /\ tasks'[t].status = "cancelled"
                   /\ tasks'[t].error = "Cancelled before processing"
                   /\ tasks'[t].elapsed = NoTime
                   /\ tasks'[t].progress = 0
             /\ \A w \in Workers : cur'[w][3] # t
             /\ \A e \in Entries(t) :
                   e \notin queue' =>
                      /\ unfinished' = unfinished - 1
                      /\ \E w \in Workers :
                            /\ pc[w] \in {"idle", "loop"}
                            /\ pc'[w] = "loop"
                            /\ cur'[w] = NoItem]_vars

\* A worker has taken the entry of a task cancelled while queued out of the
\* queue, and the record is still as cancel() left it.
C10_Witness ==
    \E t \in DOMAIN tasks :
       /\ CancelledQueued(t)
       /\ Entries(t) = {}
       /\ tasks[t].elapsed = NoTime
       /\ \E w \in Workers : pc[w] = "loop"

\* ----------------------------------------------------------------------- C11
\* C11: a record leaves the task table only in a pass of the sweeper, and
\* only if its status is completed, failed or cancelled and its age
\* (now - updated_at) has reached cleanup_after_seconds; a queued or
\* processing record is never removed.  (The record a failed submit rolls
\* back was not in the table before the call.)
C11_OnlySweeperRemoves ==
    [][\A t \in DOMAIN tasks :
          t \notin DOMAIN tasks' =>
             /\ CleanupLoop
             /\ tasks[t].status \in Terminal
             /\ tasks[t].age >= cleanup_after_seconds]_vars

\* The sweeper has removed the record of the only task submitted so far.
C11_Witness ==
    /\ nextId = 2
    /\ unfinished = 0
    /\ tasks = <<>>

\* ----------------------------------------------------------------------- C12
\* Record t is terminal and old enough to be swept.
Sweepable(t) ==
    /\ t \in DOMAIN tasks
    /\ tasks[t].status \in Terminal
    /\ tasks[t].age >= cleanup_after_seconds

\* A pass of the sweeper removes every sweepable record.
PassRemovesSweepable ==
    [][CleanupLoop => \A t \in DOMAIN tasks : Sweepable(t) => t \notin DOMAIN tasks']_vars

\* While the manager runs, a terminal record is removed in the end.
TerminalLeadsToRemoved ==
    \A t \in TaskIds :
       (phase = "running" /\ t \in DOMAIN tasks /\ tasks[t].status \in Terminal)
          ~> (t \notin DOMAIN tasks \/ phase # "running")

\* While the manager runs and nothing is submitted, a table that holds only
\* terminal records becomes empty.
TerminalTableEmpties ==
    \A n \in 1..(MaxFairTasks + 1) :
       (/\ phase = "running"
        /\ nextId = n
        /\ \A t \in DOMAIN tasks : tasks[t].status \in Terminal)
          ~> (tasks = <<>> \/ phase # "running" \/ nextId # n)

\* C12: while the manager runs, the next pass of the sweeper removes every
\* record that is terminal and whose age has reached cleanup_after_seconds;
\* under fair scheduling of the sweeper and the clock every terminal record is
\* removed, and a table holding only terminal records becomes empty.
C12_SweeperRemovesExpired ==
    PassRemovesSweepable /\ TerminalLeadsToRemoved /\ TerminalTableEmpties

\* Every task submitted has run and has been swept while the manager runs.
C12_Witness ==
    /\ phase = "running"
    /\ nextId = MaxFairTasks + 1
    /\ unfinished = 0
    /\ tasks = <<>>

\* ----------------------------------------------------------------------- C13
\* A GET long-poll is suspended on task t with time left before its timeout.
GetBlocked(t) ==
    /\ poll.state = "waiting"
    /\ poll.kind = "GET"
    /\ poll.task = t
    /\ poll.fut = "pending"
    /\ poll.left > 0

\* The step changes the status of task t.
StatusChanges(t) ==
    /\ t \in DOMAIN tasks
    /\ t \in DOMAIN tasks'
    /\ tasks'[t].status # tasks[t].status

\* C13 as stated: a step that changes the status of a task while a GET
\* long-poll is blocked on it resolves the waiter's wait (the waiter is woken
\* before its timeout), and a woken waiter answers with the status the
\* record then has.
C13_AsStated ==
    [][/\ \A t \in DOMAIN tasks :
             (GetBlocked(t) /\ StatusChanges(t)) => poll'.fut = "done"
       /\ PollWake => poll'.status = CurrentStatus(poll)]_vars

\* What the code does guarantee: the changes that call event.set(), that is
\* queued->processing, queued->cancelled and the checkpoint's
\* processing->cancelled, wake the waiter.
FiredChangesWake ==
    [][\A t \in DOMAIN tasks :
          (/\ GetBlocked(t)
           /\ StatusChanges(t)
           /\ \/ tasks[t].status = "queued"
              \/ \E w \in Workers : WrappedTick(w) /\ tasks'[t].status = "cancelled")
             => poll'.fut = "done"]_vars

\* ----------------------------------------------------------------------- C14
\* A suspended long-poll returns only once its event has fired or its
\* timeout has run out; on the timeout it answers, without error, with the
\* status the record has at that moment, and a DELETE whose task is still
\* processing answers 202.
TimeoutAnswersCurrentState ==
    [][/\ (poll.state = "waiting" /\ poll'.state = "returned")
             => (poll.fut = "done" \/ poll.left = 0)
       /\ PollTimeout =>
             /\ poll'.status = CurrentStatus(poll)
             /\ poll'.code \in {200, 202}
             /\ (poll.kind = "DELETE" /\ CurrentStatus(poll) = "processing")
                   => (poll'.code = 202 /\ poll'.status = "processing")
             /\ (poll.kind = "GET" \/ CurrentStatus(poll) # "processing")
                   => poll'.code = 200]_vars

\* C14: a long-poll (GET or DELETE with wait=true) always returns; when the
\* event does not fire in time it returns at the timeout with the record's
\* current state and no error, which for a DELETE on a task still processing
\* is 202 with status processing.
C14_LongPollReturns ==
    /\ TimeoutAnswersCurrentState
    /\ (poll.state = "waiting") ~> (poll.state = "returned")

\* A DELETE long-poll on a processing task has timed out with 202 and status
\* processing.
C14_Witness ==
    /\ poll.state = "returned"
    /\ poll.kind = "DELETE"
    /\ poll.fut = "pending"
    /\ poll.left = 0
    /\ poll.code = 202
    /\ poll.status = "processing"

\* ----------------------------------------------------------------------- C15
\* C15 as stated: once stop() has been called, every worker and the sweeper
\* end and stop() returns.
C15_AsStated ==
    (phase = "stopping")
       ~> (/\ phase = "stopped"
           /\ \A w \in Workers : pc[w] = "done"
           /\ sweeper = "done")

\* What the code does guarantee: stop() returns when every worker still
\* alive is blocked on the queue with stop()'s cancellation pending.
StopReturnsWhenIdle ==
    (phase = "stopping"
        /\ \A w \in Workers : pc[w] = "done" \/ (pc[w] = "idle" /\ must_cancel[w]))
       ~> (phase = "stopped")

\* ----------------------------------------------------------------------- C16
\* stop() has cancelled worker w while it executes task t, and the
\* cancellation has not reached it yet.
StopPending(w, t) == must_cancel[w] /\ pc[w] = "sleep" /\ cur[w][3] = t

\* stop() cancels the worker of every processing task, at the sleep it is
\* suspended in.
StopCancelsExecutors ==
    [][Stop => \A t \in DOMAIN tasks :
                  tasks[t].status = "processing"
                     => \E w \in Workers : pc[w] = "sleep" /\ cur[w][3] = t
                                            /\ must_cancel'[w]]_vars

\* The next step of a worker cancelled by stop() records cancelled; until
\* then the task stays processing.
StopRecordsCancelled ==
    [][\A w \in Workers, t \in DOMAIN tasks :
          StopPending(w, t) =>
             /\ t \in DOMAIN tasks'
             /\ IF pc'[w] = pc[w]
                THEN tasks'[t].status = "processing"
                ELSE tasks'[t].status = "cancelled"]_vars

\* C16: every task that is processing when stop() is called ends with status
\* cancelled, never completed or failed: stop() cancels its worker at the
\* sleep it is suspended in, the worker's next step records cancelled, and
\* under fair scheduling that step is taken.
C16_StopCancelsProcessing ==
    /\ StopCancelsExecutors
    /\ StopRecordsCancelled
    /\ \A w \in Workers, t \in TaskIds :
          StopPending(w, t) ~> (t \in DOMAIN tasks /\ tasks[t].status = "cancelled")

\* stop() was called while a task was processing, and the task has been
\* recorded cancelled by its worker's handler (not by a checkpoint).
C16_Witness ==
    /\ phase = "stopping"
    /\ \E t \in DOMAIN tasks :
          /\ tasks[t].status = "cancelled"
          /\ tasks[t].elapsed # NoTime
          /\ ~tasks[t].cancel_requested

\* ----------------------------------------------------------------------- C17
\* The step is the end of worker w.
WorkerEnds(w) == pc[w] # "done" /\ pc'[w] = "done"

\* The step is worker w finishing with an entry: an executor outcome recorded,
\* or a dequeued entry skipped.
WorkerFinishes(w) ==
    \/ cur[w] # NoItem /\ cur'[w] = NoItem
    \/ /\ pc[w] \in {"idle", "loop"}
       /\ queue' # queue
       /\ pc'[w] = "loop"

\* C17: a worker ends only by stop()'s cancellation reaching it while it is
\* blocked on the queue.  A step in which a worker finishes with a task (a
\* value, TaskFailed, an unexpected exception, a cancellation, or a skipped
\* entry) leaves the same worker at the top of its loop, holding the event
\* loop; and from the top of its loop the worker's next step takes the least
\* entry of the queue, or blocks if the queue is empty.
C17_WorkerSurvivesTasks ==
    [][\A w \in Workers :
          /\ WorkerEnds(w) => (must_cancel[w] /\ pc[w] = "idle" /\ phase = "stopping")
          /\ WorkerFinishes(w) => (pc'[w] = "loop" /\ active' = w)
          /\ pc[w] = "loop" =>
                /\ active = w
                /\ IF queue = {}
                   THEN pc'[w] = "idle"
                   ELSE /\ queue' = queue \ {PQMin(queue)}
                        /\ pc'[w] \in {"loop", "process"}]_vars

\* Two workers have picked up three tasks: one failed, one was cancelled at
\* a checkpoint, and the third is being executed.
C17_Witness ==
    /\ phase = "running"
    /\ \E t \in DOMAIN tasks : tasks[t].status = "failed"
    /\ \E t \in DOMAIN tasks : tasks[t].error = "Cancelled during processing"
    /\ \E w \in Workers : pc[w] = "sleep" /\ tasks[cur[w][3]].status = "processing"

\* ----------------------------------------------------------------------- C18
\* The step moves task t from processing to `status`.
Becomes(t, status) ==
    /\ t \in DOMAIN tasks
    /\ t \in DOMAIN tasks'
    /\ tasks[t].status = "processing"
    /\ tasks'[t].status = status

\* C18: the worker records each executor outcome as one terminal status.  A
\* returned value: completed with result = value, progress 100, message
\* "Done", eta_seconds 0 and no error.  TaskFailed(reason), which is how
\* lucky_job fails: failed with error = reason and no result.  Any other
\* exception, which is how generate_report fails: failed with error =
\* "Unexpected error: <detail>" and no result.  No such step returns or
\* raises anything to a caller of submit, which has returned "queued" or
\* raised QueueFull in its own step.
C18_OutcomeMapping ==
    [][/\ \A t \in DOMAIN tasks :
             /\ Becomes(t, "completed") =>
                   /\ tasks'[t].result = "value"
                   /\ tasks'[t].progress = 100
                   /\ tasks'[t].message = "Done"
                   /\ tasks'[t].eta_seconds = 0
                   /\ tasks'[t].error = None
                   /\ ret' = NoRet
             /\ Becomes(t, "failed") =>
                   /\ tasks'[t].error =
                         IF tasks[t].task_type = "generate_report"
                         THEN "Unexpected error: detail"
                         ELSE "TaskFailed reason"
                   /\ tasks'[t].result = None
                   /\ ret' = NoRet
       /\ SubmitStep => ret' \in {"queued", "QueueFull"}]_vars

\* One task has completed with its value, one has failed with its reason and
\* one has failed on an unexpected exception.
C18_Witness ==
    /\ \E t \in DOMAIN tasks :
          tasks[t].status = "completed" /\ tasks[t].result = "value"
    /\ \E t \in DOMAIN tasks :
          tasks[t].status = "failed" /\ tasks[t].error = "TaskFailed reason"
    /\ \E t \in DOMAIN tasks :
          tasks[t].status = "failed" /\ tasks[t].error = "Unexpected error: detail"

\* ---------------------------------------------------------------------------
\* C19
\* ---------------------------------------------------------------------------

\* Task t is processing before and after the step.
StaysInProcessing(t) ==
    /\ tasks[t].status = "processing"
    /\ t \in DOMAIN tasks'
    /\ tasks'[t].status = "processing"

\* C19, as stated: for every record, progress stays within 0..100 and never
\* decreases while the status is processing, from the worker's transition to
\* processing through the wrapper's entry and every tick, and progress is 100
\* whenever the status is completed.  The wrapper's entry writes 100
\* (jobs.py:36) over the worker's 0 (task_manager.py:178) and its first tick
\* writes the percentage completed, 0, over that (jobs.py:66).
C19_AsStated ==
    [][\A t \in DOMAIN tasks :
          /\ tasks[t].progress \in 0..100
          /\ tasks[t].status = "completed" => tasks[t].progress = 100
          /\ StaysInProcessing(t) => tasks'[t].progress >= tasks[t].progress]_vars

\* The extent of the decrease: the field of a processing record decreases only
\* in the first pass of the tick loop, which runs in the same uninterrupted run
\* of the worker as the wrapper's entry, so that no other coroutine reads the
\* entry's 100; between two suspension points of the executor the field never
\* decreases.
ProgressDecreasesOnlyAtEntry ==
    [][/\ \A t \in DOMAIN tasks :
             /\ tasks[t].progress \in 0..100
             /\ tasks[t].status = "completed" => tasks[t].progress = 100
             /\ (StaysInProcessing(t) /\ tasks'[t].progress < tasks[t].progress) =>
                   \E w \in Workers :
                      /\ pc[w] = "tick"
                      /\ active = w
                      /\ cur[w][3] = t
                      /\ tasks[t].progress = 100
       /\ active = 0 => \A w \in Workers : pc[w] \notin {"process", "tick"}]_vars

\* ---------------------------------------------------------------------------
\* C20
\* ---------------------------------------------------------------------------

\* C20, as stated: in every reachable state, result is present only if the
\* status is completed; error is absent while the status is queued, processing
\* or completed; every failed or cancelled record has an error string, and a
\* cancelled record's is "Cancelled before processing" or "Cancelled during
\* processing", the latter also when stop() cancelled its executor.  The
\* worker's handler for the cancellation that stop() delivers writes the status
\* alone (task_manager.py:199-200).
C20_AsStated ==
    \A t \in DOMAIN tasks :
       /\ tasks[t].result # None => tasks[t].status = "completed"
       /\ tasks[t].status \in {"queued", "processing", "completed"} =>
             tasks[t].error = None
       /\ tasks[t].status = "failed" => tasks[t].error # None
       /\ tasks[t].status = "cancelled" =>
             tasks[t].error \in {"Cancelled before processing",
                                 "Cancelled during processing"}

\* A cancelled record is without an error only once stop() has been called;
\* the other three parts of the statement hold in every reachable state.
ErrorMissingOnlyAfterStop ==
    \A t \in DOMAIN tasks :
       /\ tasks[t].result # None => tasks[t].status = "completed"
       /\ tasks[t].status \in {"queued", "processing", "completed"} =>
             tasks[t].error = None
       /\ tasks[t].status = "failed" => tasks[t].error # None
       /\ tasks[t].status = "cancelled" =>
             \/ tasks[t].error \in {"Cancelled before processing",
                                    "Cancelled during processing"}
             \/ tasks[t].error = None /\ phase # "running"

\* ---------------------------------------------------------------------------
\* C21
\* ---------------------------------------------------------------------------

\* C21: for any key and any window of length period_seconds in which reset is
\* not called, at most max_requests calls of allow(key) return true, whatever
\* allow, remaining and sweeper steps are interleaved.  `admitted` holds the
\* allow(key) calls that returned true within the window that ends now, since
\* the last reset.
C21_WindowLimit ==
    \A k \in Keys : Len(admitted[k]) <= max_requests

\* A key has used up its window with admissions made at different times, its
\* last allow was refused, and the sweeper is running.
C21_Witness ==
    \E k \in Keys :
       /\ Len(admitted[k]) = max_requests
       /\ admitted[k][1] > admitted[k][max_requests]
       /\ called = [op |-> "allow", key |-> k, value |-> 0]
       /\ cleanup_task = "sleep"

\* ---------------------------------------------------------------------------
\* C22
\* ---------------------------------------------------------------------------

Min(a, b) == IF a < b THEN a ELSE b

\* The allow(k) calls counted in burst[k] began on an empty bucket and all
\* lie within the window of the first of them.
InBurst(k) == burst[k].n > 0 /\ burst[k].age <= period_seconds

\* C22: of N allow calls on one key that begin on an empty bucket and run
\* within one window, in any interleaving, exactly min(N, max_requests) return
\* true and the others false, and a remaining(key) made afterwards returns
\* max_requests - min(N, max_requests).
C22_ConcurrentAllow ==
    [][\A k \in Keys :
          /\ InBurst(k) => burst[k].granted = Min(burst[k].n, max_requests)
          /\ (InBurst(k) /\ called'.op = "remaining" /\ called'.key = k) =>
                called'.value = max_requests - Min(burst[k].n, max_requests)]_vars

\* More calls than the limit were made in one window on an empty bucket, the
\* limit was granted, and remaining answers 0.
C22_Witness ==
    \E k \in Keys :
       /\ InBurst(k)
       /\ burst[k].n = MaxBurst
       /\ burst[k].granted = max_requests
       /\ called = [op |-> "remaining", key |-> k, value |-> 0]

\* ---------------------------------------------------------------------------
\* C23
\* ---------------------------------------------------------------------------

\* The step is a call of allow(k) that returned v (1: true, 0: false).
AllowReturns(k, v) ==
    /\ called'.op = "allow"
    /\ called'.key = k
    /\ called'.value = v
    /\ \/ called' # called
       \/ buckets' # buckets

\* C23: allow(key) returns false only when max_requests admissions of the key
\* lie within the last period_seconds; once the oldest of them are older than
\* that they no longer count and allow(key) returns true again, whether or
\* not the sweeper has run in between.
C23_DeniedOnlyAtLimit ==
    [][\A k \in Keys :
          /\ AllowReturns(k, 0) => Len(admitted[k]) = max_requests
          /\ (called'.op = "allow" /\ called'.key = k
                 /\ Len(admitted[k]) < max_requests) => called'.value = 1]_vars

\* A key reached its limit and was refused in the window of its first call;
\* that window is over, the bucket was never found empty since, no sweeper is
\* running, and allow has just returned true again.
C23_Witness ==
    \E k \in Keys :
       /\ burst[k].age > period_seconds
       /\ burst[k].granted = max_requests
       /\ burst[k].n > max_requests
       /\ called = [op |-> "allow", key |-> k, value |-> 1]
       /\ cleanup_task = "none"

\* ---------------------------------------------------------------------------
\* C24
\* ---------------------------------------------------------------------------

\* The step is a call of allow, remaining or reset(key) for key k.
CallFor(k) ==
    /\ called'.op \in {"allow", "remaining", "reset"}
    /\ called'.key = k

\* The bucket of key j is the same object with the same content after the
\* step.
BucketKept(j) ==
    /\ (j \in DOMAIN buckets') = (j \in DOMAIN buckets)
    /\ j \in DOMAIN buckets => buckets'[j] = buckets[j]

\* The timestamps of key k that are within the window, read from its own
\* bucket.
InWindowOf(k) == IF k \in DOMAIN buckets THEN Pruned(buckets[k]) ELSE <<>>

\* C24: keys are independent.  A call of allow, remaining or reset(key) for k
\* leaves the bucket of every other key as it is, and what it returns and
\* leaves in the bucket of k is determined by the bucket of k alone: allow(k)
\* returns true exactly when fewer than max_requests timestamps of k are
\* within the window, remaining(k) the number that is missing to
\* max_requests.
C24_KeysIndependent ==
    [][\A k \in Keys :
          CallFor(k) =>
             /\ \A j \in Keys \ {k} : BucketKept(j)
             /\ called'.op = "allow" =>
                   /\ called'.value = IF Len(InWindowOf(k)) < max_requests
                                      THEN 1 ELSE 0
                   /\ buckets'[k] = IF called'.value = 1
                                    THEN Append(InWindowOf(k), 0)
                                    ELSE InWindowOf(k)
             /\ called'.op = "remaining" =>
                   called'.value = max_requests - Len(InWindowOf(k))
             /\ called'.op = "reset" => k \notin DOMAIN buckets']_vars

\* One key is at its limit and has just been refused while the other key has
\* a bucket with room left.
C24_Witness ==
    \E k \in Keys, j \in Keys :
       /\ j # k
       /\ called = [op |-> "allow", key |-> k, value |-> 0]
       /\ j \in DOMAIN buckets
       /\ buckets[j] # <<>>
       /\ Len(buckets[j]) < max_requests

\* ---------------------------------------------------------------------------
\* C25
\* ---------------------------------------------------------------------------

\* The number of timestamps of key k within the last period_seconds, in the
\* table bs.
Fresh(bs, k) ==
    IF k \in DOMAIN bs
    THEN Cardinality({i \in 1..Len(bs[k]) : bs[k][i] <= period_seconds})
    ELSE 0

\* What remaining(k) would return on the table bs.
RemainingOf(bs, k) ==
    IF max_requests - Fresh(bs, k) > 0 THEN max_requests - Fresh(bs, k) ELSE 0

\* C25: remaining(key) returns max(0, max_requests - n), n the number of
\* timestamps of the key within the last period_seconds; allow(key) at the
\* same instant returns true exactly when that number is positive; and an
\* allow that returns true lowers it by exactly 1.
C25_RemainingCounts ==
    [][\A k \in Keys :
          /\ (called'.op = "remaining" /\ called'.key = k) =>
                /\ called'.value = RemainingOf(buckets, k)
                /\ RemainingOf(buckets', k) = RemainingOf(buckets, k)
          /\ (called'.op = "allow" /\ called'.key = k) =>
                /\ (called'.value = 1) = (RemainingOf(buckets, k) > 0)
                /\ called'.value = 1 =>
                      RemainingOf(buckets', k) = RemainingOf(buckets, k) - 1
                /\ called'.value = 0 =>
                      RemainingOf(buckets', k) = RemainingOf(buckets, k)]_vars

\* remaining has answered 1 for a key that had used its limit in the window
\* of its first call: one of its timestamps has left the window since.
C25_Witness ==
    \E k \in Keys :
       /\ called = [op |-> "remaining", key |-> k, value |-> 1]
       /\ burst[k].granted = max_requests
       /\ k \in DOMAIN buckets
       /\ Len(buckets[k]) = max_requests - 1

\* ---------------------------------------------------------------------------
\* C26
\* ---------------------------------------------------------------------------

\* The timestamp is inside the window.
Fresh_ts(age) == age <= period_seconds

\* C26: one sweep removes from every bucket exactly the timestamps older than
\* now - period_seconds and keeps the others, deletes exactly the buckets
\* left empty and creates none; after it no bucket is empty and no bucket's
\* head is expired.
C26_SweepPrunes ==
    [][called'.op = "sweep" =>
          /\ DOMAIN buckets' \subseteq DOMAIN buckets
          /\ \A k \in DOMAIN buckets :
                /\ (k \in DOMAIN buckets') = (SelectSeq(buckets[k], Fresh_ts) # <<>>)
                /\ k \in DOMAIN buckets' =>
                      buckets'[k] = SelectSeq(buckets[k], Fresh_ts)
          /\ \A k \in DOMAIN buckets' :
                buckets'[k] # <<>> /\ Fresh_ts(Head(buckets'[k]))]_vars

\* The sweeper has just run: the bucket of a key that had made calls is gone,
\* and the bucket of the other key, which had used its limit, has lost a
\* timestamp and kept one.
C26_Witness ==
    \E k \in Keys, j \in Keys :
       /\ called.op = "sweep"
       /\ burst[k].n > 0
       /\ k \notin DOMAIN buckets
       /\ j \in DOMAIN buckets
       /\ burst[j].granted = max_requests
       /\ Len(buckets[j]) = max_requests - 1

\* ---------------------------------------------------------------------------
\* C27
\* ---------------------------------------------------------------------------

\* The step is a DELETE request for task t that is answered or suspended.
DeleteRequest(t) ==
    /\ poll.state = "none"
    /\ poll'.state # "none"
    /\ poll'.kind = "DELETE"
    /\ poll'.task = t

\* DELETE is refused for this id: malformed, not in the table, or terminal.
NotCancellable(t) ==
    \/ t = Malformed
    \/ t \notin DOMAIN tasks
    \/ tasks[t].status \in Terminal

\* C27: DELETE /api/v1/tasks/{task_id} answers 202 exactly when the TaskInfo
\* it returns has status processing and 200 when it has any other status,
\* also after a wait; it answers 404, leaving every record and the queue as
\* they are, exactly when the id is malformed, not in the table, or the task
\* is already terminal.
C27_DeleteCodes ==
    [][/\ (poll'.state = "returned" /\ poll'.kind = "DELETE") =>
             /\ poll'.code \in {200, 202, 404}
             /\ poll'.code = 202 => poll'.status = "processing"
             /\ poll'.code = 200 =>
                   poll'.status \in {"queued", "completed", "failed", "cancelled"}
       /\ \A t \in 0..(MaxPollTasks + 1) :
             DeleteRequest(t) =>
                /\ NotCancellable(t) =>
                      /\ poll'.state = "returned"
                      /\ poll'.code = 404
                      /\ tasks' = tasks
                      /\ queue' = queue
                /\ ~NotCancellable(t) =>
                      /\ poll'.code # 404
                      /\ tasks'[t].cancel_requested
       /\ (poll.state = "waiting" /\ poll.kind = "DELETE"
              /\ poll'.state = "returned") => poll'.code # 404]_vars

\* A DELETE with wait=true on a processing task has returned 200 after the
\* executor's checkpoint cancelled the task.
C27_Witness ==
    /\ poll.state = "returned"
    /\ poll.kind = "DELETE"
    /\ poll.fut = "done"
    /\ poll.code = 200
    /\ poll.status = "cancelled"
    /\ poll.task \in DOMAIN tasks
    /\ tasks[poll.task].error = "Cancelled during processing"

\* ---------------------------------------------------------------------------
\* C28
\* ---------------------------------------------------------------------------

\* The step handles a request to an endpoint of /api/v1/tasks.
RequestStep == http'.method # "none"

\* The step calls the task manager from a handler: a record is created, a
\* request begins to be served by get_task or cancel_task, or a cancellation
\* is recorded.
ManagerCalled ==
    \/ nextId' # nextId
    \/ poll.state = "none" /\ poll'.state # "none"
    \/ \E t \in DOMAIN tasks :
          /\ t \in DOMAIN tasks'
          /\ ~tasks[t].cancel_requested
          /\ tasks'[t].cancel_requested

\* C28: every request to a /api/v1/tasks endpoint calls allow(key) first;
\* when allow returns false the request is answered 429 and the task manager
\* is not called: no record is created, cancelled or waited on, and the table
\* and the queue are unchanged.
C28_DeniedBeforeCore ==
    [][/\ RequestStep =>
             /\ called'.op = "allow"
             /\ called'.key = http'.key
             /\ called'.value = 0 =>
                   /\ http'.code = 429
                   /\ tasks' = tasks
                   /\ queue' = queue
                   /\ poll' = poll
                   /\ UNCHANGED tmvars
             /\ called'.value = 1 => http'.code # 429
       /\ ManagerCalled => (RequestStep /\ called'.op = "allow" /\ called'.value = 1)]_vars

\* A request has just been refused with 429 while a task is processing and
\* an earlier request is suspended in its long-poll.
C28_Witness ==
    /\ http.code = 429
    /\ called.op = "allow"
    /\ called.value = 0
    /\ poll.state = "waiting"
    /\ \E t \in DOMAIN tasks : tasks[t].status = "processing"

\* ---------------------------------------------------------------------------
\* C29
\* ---------------------------------------------------------------------------

\* C29, as stated: once stop() has been called no worker dequeues another
\* entry and no task goes from queued to processing; a worker interrupted in
\* a task by the shutdown does not go on to the next entry, and the tasks
\* queued at shutdown stay queued.  The worker's handler for the cancellation
\* (task_manager.py:199-200) is inside its loop: the worker goes on to
\* queue.get(), which returns the next entry at once.
C29_AsStated ==
    [][(phase \in {"stopping", "stopped"}) =>
          (/\ queue \subseteq queue'
           /\ \A t \in DOMAIN tasks :
                 (tasks[t].status = "queued" /\ t \in DOMAIN tasks') =>
                    tasks'[t].status = "queued")]_vars

\* What the code does guarantee: after stop() only a worker that the
\* shutdown interrupted in a task dequeues, and it is no longer marked for
\* cancellation; a worker that was blocked on the queue ends without
\* dequeuing.
OnlyInterruptedWorkersDequeue ==
    [][(phase \in {"stopping", "stopped"} /\ queue' # queue) =>
          (\E w \in Workers :
              /\ pc[w] = "loop"
              /\ active = w
              /\ ~must_cancel[w])]_vars

\* ---------------------------------------------------------------------------
\* C30
\* ---------------------------------------------------------------------------

\* Worker w runs a pass of the wrapper's tick loop on a task whose
\* cancel_requested is set.
CheckpointObserves(w) ==
    /\ WrappedTick(w)
    /\ tasks[cur[w][3]].status = "processing"
    /\ tasks[cur[w][3]].cancel_requested

\* int(min(100, int(elapsed * 100 / total))) with total = max(1, duration).
PercentSoFar(rec) ==
    LET total == IF duration > 1 THEN duration ELSE 1
        pct == (rec.elapsed * 100) \div total
    IN IF pct > 100 THEN 100 ELSE pct

\* The record was cancelled by the wrapper's checkpoint.
CancelledAtCheckpoint(rec) ==
    rec.status = "cancelled" /\ rec.error = "Cancelled during processing"

\* C30: a checkpoint of the wrapper that observes cancel_requested sets status
\* cancelled, error "Cancelled during processing" and progress to the
\* percentage completed so far and fires the change notifier (a handler
\* waiting on the record is woken); the job body is never invoked: no result
\* is written and the task never ends completed or failed.
C30_CheckpointCancel ==
    [][/\ \A w \in Workers :
             CheckpointObserves(w) =>
                LET t == cur[w][3]
                IN /\ tasks'[t].status = "cancelled"
                   /\ tasks'[t].error = "Cancelled during processing"
                   /\ tasks'[t].progress = PercentSoFar(tasks[t])
                   /\ tasks'[t].message = "Cancelled on request"
                   /\ tasks'[t].eta_seconds = NoTime
                   /\ tasks'[t].result = None
                   /\ tasks'[t].event
                   /\ (poll.state = "waiting" /\ poll.task = t) => poll'.fut = "done"
       /\ \A t \in DOMAIN tasks :
             (CancelledAtCheckpoint(tasks[t]) /\ t \in DOMAIN tasks') =>
                /\ CancelledAtCheckpoint(tasks'[t])
                /\ tasks'[t].result = None
                /\ tasks'[t].progress = tasks[t].progress]_vars

\* The checkpoint has just cancelled a task part of whose duration had
\* passed, and the future of the handler waiting on it is resolved; the
\* worker has not yet left the wrapper.
C30_Witness ==
    \E w \in Workers :
       /\ pc[w] = "raise"
       /\ CancelledAtCheckpoint(tasks[cur[w][3]])
       /\ tasks[cur[w][3]].progress = 100
       /\ tasks[cur[w][3]].event
       /\ poll.state = "waiting"
       /\ poll.task = cur[w][3]
       /\ poll.fut = "done"

\* ---------------------------------------------------------------------------
\* C31
\* ---------------------------------------------------------------------------

\* The handler of the request in flight waits on task t, whose cancellation
\* was requested before it armed the notifier: its future is still pending.
ReArmedOn(t) ==
    /\ poll.state = "waiting"
    /\ poll.task = t
    /\ poll.fut = "pending"
    /\ t \in DOMAIN tasks
    /\ tasks[t].status = "processing"
    /\ tasks[t].cancel_requested

\* The handler's future was resolved by the checkpoint's fire on task t and
\* the handler has not run since (the record it holds may have been swept
\* from the table meanwhile).
WokenByCheckpoint(t) ==
    /\ poll.state = "waiting"
    /\ poll.task = t
    /\ poll.fut = "done"
    /\ IF t \in DOMAIN tasks
       THEN CancelledAtCheckpoint(tasks[t])
       ELSE poll.held = "cancelled"

\* C31: the checkpoint's fire for processing->cancelled resolves the future
\* of a waiter that re-armed the notifier after cancel(); the worker's
\* finally block, which clears the notifier before the waiter runs, leaves
\* that future resolved; the waiter then returns, woken and not timed out,
\* with status cancelled.
C31_WakeNotLost ==
    /\ [][\A w \in Workers : \A t \in DOMAIN tasks :
             (t = cur[w][3]) =>
                /\ (WrappedTick(w) /\ ReArmedOn(t)) => WokenByCheckpoint(t)'
                /\ (WorkerExcept(w) /\ WokenByCheckpoint(t)) =>
                      /\ ~tasks'[t].event
                      /\ WokenByCheckpoint(t)']_vars
    /\ [][\A t \in 1..MaxPollTasks :
             WokenByCheckpoint(t) =>
                \/ WokenByCheckpoint(t)'
                \/ /\ poll'.state = "returned"
                   /\ poll'.status = "cancelled"
                   /\ poll'.fut = "done"]_vars
    /\ \A t \in 1..MaxPollTasks :
          WokenByCheckpoint(t) ~> (poll.state = "returned" /\ poll.status = "cancelled")

\* A DELETE that waited on a processing task has returned cancelled with
\* time left before its timeout, after the worker cleared the notifier.
C31_Witness ==
    /\ poll.state = "returned"
    /\ poll.kind = "DELETE"
    /\ poll.fut = "done"
    /\ poll.left > 0
    /\ poll.status = "cancelled"
    /\ poll.task \in DOMAIN tasks
    /\ CancelledAtCheckpoint(tasks[poll.task])
    /\ ~tasks[poll.task].event
    /\ \A w \in Workers : cur[w] = NoItem

\* ---------------------------------------------------------------------------
\* C32
\* ---------------------------------------------------------------------------

\* The workers that have dequeued an entry and not yet acknowledged it.
Holding == {w \in Workers : cur[w] # NoItem}

\* The entries the step takes out of the queue.
Dequeued == queue \ queue'

\* C32: every accepted entry is in the queue, held by one worker, or
\* acknowledged: the count of unacknowledged entries is the number of queued
\* entries plus the number of workers holding one.  A step dequeues at most
\* one entry and either hands it to one worker or acknowledges it at once
\* (record missing or already cancelled); a worker that lets go of its entry
\* (completed, failed, cancelled at a checkpoint, interrupted by stop())
\* acknowledges it in the same step; nothing else acknowledges.  A worker
\* holding an entry lets go of it eventually, and while the workers are being
\* served the count returns to zero.
C32_AcknowledgedOnce ==
    /\ [](unfinished = Cardinality(queue) + Cardinality(Holding))
    /\ [][LET released == {w \in Holding : cur'[w] = NoItem}
              taken == {w \in Workers : cur[w] = NoItem /\ cur'[w] # NoItem}
          IN /\ Cardinality(Dequeued) <= 1
             /\ Cardinality(released) <= 1
             /\ \A w \in taken : Dequeued = {cur'[w]}
             /\ \A w \in Holding : cur'[w] \in {cur[w], NoItem}
             /\ unfinished' = unfinished + Cardinality(queue' \ queue)
                                - Cardinality(released)
                                - (IF taken = {} THEN Cardinality(Dequeued) ELSE 0)
         ]_vars
    /\ \A w \in Workers : (cur[w] # NoItem) ~> (cur[w] = NoItem)
    /\ (phase = "running" /\ unfinished > 0) ~> (unfinished = 0 \/ phase # "running")

\* Both tasks were accepted, one was executed to its end and the other was
\* dequeued by a worker interrupted by stop(); nothing is left to acknowledge.
C32_Witness ==
    /\ nextId = MaxFairTasks + 1
    /\ phase \in {"stopping", "stopped"}
    /\ unfinished = 0
    /\ queue = {}
    /\ Holding = {}
    /\ \E t \in DOMAIN tasks : tasks[t].status \in {"completed", "failed"}
    /\ \E t \in DOMAIN tasks : tasks[t].status = "cancelled" /\ tasks[t].error = None

\* ---------------------------------------------------------------------------
\* C33
\* ---------------------------------------------------------------------------

\* The tasks whose status is processing.
Processing == {t \in DOMAIN tasks : tasks[t].status = "processing"}

\* The workers executing task t.
Executing(t) == {w \in DOMAIN pc : cur[w][3] = t}

\* C33: with the workers of one start(), at most `concurrency` tasks have
\* status processing; a processing record is executed by exactly one worker,
\* which is inside its executor, and no two workers hold the same task.
C33_AtMostConcurrency ==
    /\ Cardinality(Processing) <= concurrency
    /\ \A t \in Processing :
          /\ Cardinality(Executing(t)) = 1
          /\ \A w \in Executing(t) : pc[w] \in {"process", "tick", "sleep"}
    /\ \A v, w \in DOMAIN pc :
          (v # w /\ cur[v] # NoItem) => cur[v][3] # cur[w][3]

\* Every worker is executing a task and a further accepted task waits in the
\* queue.
C33_Witness ==
    /\ Cardinality(Processing) = concurrency
    /\ \E t \in DOMAIN tasks : tasks[t].status = "queued" /\ Entries(t) # {}
    /\ \A w \in DOMAIN pc : pc[w] = "sleep"

\* ---------------------------------------------------------------------------
\* C34
\* ---------------------------------------------------------------------------

\* The timestamps of dq do not decrease from head to tail: their ages do not
\* increase.
Ordered(dq) == \A i, j \in 1..Len(dq) : i < j => dq[i] >= dq[j]

\* dq with its first n elements dropped.
Drop(dq, n) == SubSeq(dq, n + 1, Len(dq))

\* C34: every bucket is ordered in every reachable state.  An admitted allow
\* drops timestamps at the head only and appends its own at the tail, and
\* that timestamp is not smaller than the tail it finds, also when time has
\* passed between the call's clock reading and its lock; while a call is
\* between the two, no other call changes a bucket.
C34_BucketsOrdered ==
    /\ [](\A k \in DOMAIN buckets : Ordered(buckets[k]))
    /\ [][(called.op = "now" /\ called'.op = "allow") =>
             LET k == called.key
                 old == IF k \in DOMAIN buckets THEN buckets[k] ELSE <<>>
             IN /\ \A j \in DOMAIN buckets' \ {k} : buckets'[j] = buckets[j]
                /\ \E n \in 0..Len(old) :
                      buckets'[k] = IF called'.value = 1
                                    THEN Drop(old, n) \o <<called.value>>
                                    ELSE Drop(old, n)
                /\ \A i \in 1..Len(old) : old[i] >= called.value]_vars
    /\ [][(called.op = "now" /\ called'.op = "now") =>
             /\ DOMAIN buckets' = DOMAIN buckets
             /\ \A k \in DOMAIN buckets : Len(buckets'[k]) = Len(buckets[k])]_vars

\* An allow that took the lock a second after it read the clock has just
\* appended its timestamp behind an older one.
C34_Witness ==
    \E k \in DOMAIN buckets :
       /\ called = [op |-> "allow", key |-> k, value |-> 1]
       /\ Len(buckets[k]) = 2
       /\ buckets[k][2] = MaxDelay
       /\ buckets[k][1] > buckets[k][2]

\* ---------------------------------------------------------------------------
\* C35
\* ---------------------------------------------------------------------------

\* The position in the snapshot of the record of the i-th line yielded.
PositionOf(i) ==
    CHOOSE j \in 1..Len(stream.snap) : stream.snap[j] = stream.out[i][1]

\* The smaller of the limit and the size of the snapshot.
FirstFew == IF stream.limit < Len(stream.snap) THEN stream.limit ELSE Len(stream.snap)

\* C35: a listing with filter s and limit L yields at most L lines, each of a
\* record of the snapshot (the table when the generator first ran), no record
\* twice and in the order of the snapshot; with a filter, every line yielded
\* has status s, which is the status its record had in the step that yielded
\* it; without a filter the lines are those of the first records of the
\* snapshot, min(L, size) of them once the listing has ended.
C35_Listing ==
    /\ [](/\ Len(stream.out) <= stream.limit
          /\ \A i \in 1..Len(stream.out) :
                /\ \E j \in 1..Len(stream.snap) : stream.snap[j] = stream.out[i][1]
                /\ stream.filter # None => stream.out[i][2] = stream.filter
                /\ stream.filter = None => stream.snap[i] = stream.out[i][1]
          /\ \A i, j \in 1..Len(stream.out) :
                i < j => /\ stream.out[i][1] # stream.out[j][1]
                         /\ PositionOf(i) < PositionOf(j)
          /\ (stream.state = "closed" /\ stream.filter = None) =>
                Len(stream.out) = FirstFew)
    /\ [][/\ (stream.state = "new" /\ stream'.state # "new") =>
                /\ DOMAIN tasks = {stream'.snap[j] : j \in 1..Len(stream'.snap)}
                /\ \A i, j \in 1..Len(stream'.snap) :
                      i < j => stream'.snap[i] < stream'.snap[j]
          /\ stream.state \in {"open", "closed"} => stream'.snap = stream.snap
          /\ Len(stream'.out) >= Len(stream.out)
          /\ Len(stream'.out) <= Len(stream.out) + 1
          /\ \A i \in 1..Len(stream.out) : stream'.out[i] = stream.out[i]
          /\ Len(stream'.out) > Len(stream.out) =>
                LET line == stream'.out[Len(stream'.out)]
                IN line[2] = IF line[1] \in DOMAIN tasks
                             THEN tasks[line[1]].status
                             ELSE stream.gone[line[1]]]_vars

\* A listing filtered by status processing with limit 1 has ended after one
\* line: it skipped the first record of its snapshot and yielded the second,
\* and the first record has left the table since the snapshot.
C35_Witness ==
    /\ stream.state = "closed"
    /\ stream.filter = "processing"
    /\ stream.limit = 1
    /\ Len(stream.snap) = 2
    /\ stream.out = <<<<stream.snap[2], "processing">>>>
    /\ 1 \notin DOMAIN tasks

\* ---------------------------------------------------------------------------
\* C36
\* ---------------------------------------------------------------------------

\* The entries of the queue whose task has no queued record.
Orphans == {e \in queue : ~(e[3] \in DOMAIN tasks /\ tasks[e[3]].status = "queued")}

\* C36: every queued record has exactly one entry in the queue; no two
\* entries share a seq or a task id; an entry is enqueued only by the submit
\* that draws its task id, with a seq greater than every earlier one, so no
\* task id is enqueued twice, and a task enters processing only from queued
\* and only when its entry is dequeued, so no task is executed twice; an
\* entry without a queued record belongs to a task cancelled while queued,
\* whose record is cancelled or has been swept.
C36_QueueMatchesRecords ==
    /\ [](/\ \A t \in DOMAIN tasks :
                tasks[t].status = "queued" => Cardinality(Entries(t)) = 1
          /\ \A a, b \in queue :
                a # b => (a[2] # b[2] /\ a[3] # b[3])
          /\ \A e \in queue : e[2] <= seq /\ e[3] < nextId
          /\ \A e \in Orphans :
                e[3] \in DOMAIN tasks => CancelledQueued(e[3]))
    /\ [][/\ \A e \in queue' \ queue :
                /\ e[3] = nextId
                /\ nextId' = nextId + 1
                /\ e[2] = seq + 1
                /\ seq' = seq + 1
                /\ queue' = queue \cup {e}
          /\ \A t \in DOMAIN tasks :
                /\ (t \in DOMAIN tasks' /\ tasks'[t].status = "queued") =>
                      tasks[t].status = "queued"
                /\ (t \in DOMAIN tasks' /\ tasks'[t].status = "processing"
                      /\ tasks[t].status # "processing") =>
                      /\ tasks[t].status = "queued"
                      /\ Entries(t) # {}
                      /\ Entries(t) \cap queue' = {}
                /\ (t \notin DOMAIN tasks' /\ Entries(t) # {}) => CancelledQueued(t)
                /\ (Entries(t) # {} /\ tasks[t].status = "cancelled"
                      /\ t \in DOMAIN tasks') => tasks'[t].status = "cancelled"
         ]_vars

\* The queue holds the entry of a queued task and the entry of a task that
\* was cancelled while queued and whose record has been swept.
C36_Witness ==
    /\ \E e \in queue : e \notin Orphans
    /\ \E e \in Orphans : e[3] \notin DOMAIN tasks
    /\ seq = MaxTasks

\* ---------------------------------------------------------------------------
\* C37
\* ---------------------------------------------------------------------------

\* The queue holds max_queue_size entries and none of their tasks is queued
\* any more.
FullOfOrphans ==
    /\ Cardinality(queue) = max_queue_size
    /\ Orphans = queue

\* C37: the step that cancels a queued task leaves the queue and its count of
\* unacknowledged entries as they are; so does every pass of the sweeper; an
\* entry leaves the queue only in a worker's dequeuing step; and a submit
\* that finds max_queue_size entries fails with QueueFull, whatever has
\* become of their tasks' records.
C37_CancelKeepsSlot ==
    [][/\ \A t \in DOMAIN tasks :
             (/\ tasks[t].status = "queued"
              /\ t \in DOMAIN tasks'
              /\ tasks'[t].status = "cancelled") =>
                /\ queue' = queue
                /\ unfinished' = unfinished
                /\ Entries(t) # {}
       /\ DOMAIN tasks' \subseteq DOMAIN tasks /\ DOMAIN tasks' # DOMAIN tasks =>
             queue' = queue
       /\ queue \ queue' # {} => \E w \in Workers : WorkerGet(w)
       /\ (SubmitStep /\ Cardinality(queue) = max_queue_size) =>
             /\ ret' = "QueueFull"
             /\ queue' = queue
             /\ tasks' = tasks
       /\ (FullOfOrphans /\ ~\E w \in Workers : WorkerGet(w)) => FullOfOrphans'
      ]_vars

\* Every accepted task was cancelled while queued and its record swept, no
\* worker has dequeued anything, and a further submit has just failed with
\* QueueFull.
C37_Witness ==
    /\ ret = "QueueFull"
    /\ FullOfOrphans
    /\ tasks = <<>>
    /\ unfinished = max_queue_size
    /\ nextId = max_queue_size + 2

\* ---------------------------------------------------------------------------
\* C38
\* ---------------------------------------------------------------------------

\* A submit has inserted its record and will find the queue full.
Doomed == active = Submitter /\ Full(queue)

\* No agent holds, and no entry or snapshot names, task id t.
Unseen(t) ==
    /\ t \notin DOMAIN tasks
    /\ Entries(t) = {}
    /\ \A w \in Workers : cur[w][3] # t
    /\ \A i \in 1..Len(stream.snap) : stream.snap[i] # t

\* C38: while the record of a submit is in the table without its entry, the
\* only step taken is that submit's own next one: no get, cancel, listing,
\* sweep or worker step runs in between; a submit that fails leaves queue,
\* snapshot and the other records as they were and its record out of the
\* table; and an id that is in no table, queue, worker or snapshot stays so:
\* get and cancel on it return None.
C38_FailedSubmitUnseen ==
    /\ [](/\ active # Submitter =>
                /\ nextId \notin DOMAIN tasks
                /\ \A t \in DOMAIN tasks :
                      tasks[t].status = "queued" => Entries(t) # {}
          /\ active = Submitter =>
                /\ nextId \in DOMAIN tasks
                /\ tasks[nextId] = NewRecord(tasks[nextId].task_type)
                /\ Entries(nextId) = {}
                /\ \A w \in Workers : cur[w][3] # nextId
                /\ \A i \in 1..Len(stream.snap) : stream.snap[i] # nextId)
    /\ [][/\ active = Submitter =>
                /\ active' = 0
                /\ nextId' = nextId + 1
                /\ ret' \in {"queued", "QueueFull"}
                /\ stream' = stream
                /\ \A t \in DOMAIN tasks \ {nextId} :
                      t \in DOMAIN tasks' /\ tasks'[t] = tasks[t]
          /\ Doomed =>
                /\ ret' = "QueueFull"
                /\ queue' = queue
                /\ unfinished' = unfinished
                /\ Unseen(nextId)'
          /\ (SubmitStep /\ ret' = "QueueFull") => Doomed
          /\ \A t \in TaskIds :
                (t < nextId /\ Unseen(t)) =>
                   /\ Unseen(t)'
                   /\ Get(t) => ret' = None
                   /\ Cancel(t) => ret' = None]_vars

\* A submit has just failed with QueueFull while the workers were running
\* and a listing was in flight; get on its id answers None.
C38_Witness ==
    /\ ret = "QueueFull"
    /\ Unseen(nextId - 1)
    /\ phase = "running"
    /\ stream.state = "open"
    /\ Len(stream.snap) = max_queue_size
    /\ ENABLED Get(nextId - 1)

\* ---------------------------------------------------------------------------
\* C39
\* ---------------------------------------------------------------------------

\* The unexpired timestamps of key k in the limiter's table.
Unexpired(k) ==
    IF k \in DOMAIN buckets THEN SelectSeq(buckets[k], Fresh_ts) ELSE <<>>

\* C39: `admitted` is the limiter that is never swept: it changes with the
\* calls and the clock only, a sweep leaves it as it is.  Every allow and
\* remaining call answers what that limiter answers, sweeps or no sweeps in
\* between: allow(k) returns true exactly when it holds fewer than
\* max_requests timestamps of k, remaining(k) returns max(0, max_requests
\* minus their number); and the unexpired timestamps in the table are always
\* those it holds.
C39_SweepChangesNoAnswer ==
    /\ [](\A k \in Keys : Unexpired(k) = admitted[k])
    /\ [][/\ called'.op = "sweep" =>
                /\ admitted' = admitted
                /\ \A k \in Keys : Unexpired(k)' = Unexpired(k)
          /\ \A k \in Keys :
                /\ (called'.op = "allow" /\ called'.key = k) =>
                      (called'.value = 1) = (Len(admitted[k]) < max_requests)
                /\ (called'.op = "remaining" /\ called'.key = k) =>
                      called'.value = IF max_requests > Len(admitted[k])
                                      THEN max_requests - Len(admitted[k])
                                      ELSE 0]_vars

\* The sweeper has deleted the bucket of a key that had made calls, and
\* after that an allow of the other key, which holds max_requests unexpired
\* timestamps of different ages, was refused.
C39_Witness ==
    \E k \in Keys, j \in Keys :
       /\ called = [op |-> "allow", key |-> k, value |-> 0]
       /\ burst[j].n > 0
       /\ j \notin DOMAIN buckets
       /\ Len(admitted[k]) = max_requests
       /\ Unexpired(k)[1] = period_seconds

\* ---------------------------------------------------------------------------
\* C40
\* ---------------------------------------------------------------------------

\* C40: an allow(k) that returns false leaves in k's bucket exactly the
\* unexpired timestamps it found, oldest first, and leaves every other bucket
\* as it is: the timestamp whose expiry admits k again is the same before and
\* after.  remaining(k) creates no bucket and adds no timestamp: k's bucket,
\* if there is one, is left with the unexpired timestamps it had, and every
\* other bucket is left as it is.
C40_RefusedAddsNothing ==
    [][\A k \in Keys :
          /\ (called'.op = "allow" /\ called'.key = k /\ called'.value = 0) =>
                /\ k \in DOMAIN buckets
                /\ DOMAIN buckets' = DOMAIN buckets
                /\ buckets'[k] = SelectSeq(buckets[k], Fresh_ts)
                /\ Len(buckets'[k]) = max_requests
                /\ Head(buckets'[k]) = Head(SelectSeq(buckets[k], Fresh_ts))
                /\ \A j \in DOMAIN buckets \ {k} : buckets'[j] = buckets[j]
          /\ (called'.op = "remaining" /\ called'.key = k) =>
                /\ DOMAIN buckets' = DOMAIN buckets
                /\ k \in DOMAIN buckets =>
                      buckets'[k] = SelectSeq(buckets[k], Fresh_ts)
                /\ \A j \in DOMAIN buckets \ {k} : buckets'[j] = buckets[j]]_vars

\* A key whose oldest timestamp is about to expire has been refused again
\* and again in its burst, and its bucket still begins with that timestamp;
\* the other key, which has no timestamps, has no bucket.
C40_Witness ==
    \E k \in Keys :
       /\ called = [op |-> "allow", key |-> k, value |-> 0]
       /\ burst[k].n >= max_requests + 2
       /\ burst[k].granted = max_requests
       /\ buckets[k][1] = period_seconds
       /\ DOMAIN buckets = {k}
====
